---- MODULE Spec2Model ----
(***************************************************************************)
(* A model of the two algorithmic cores of the "second brain" backend:     *)
(*   - the OCR task reconciler, POST /ocr/save-tasks (routes/ocr.js) and   *)
(*     its title normalisation normalizeTitle;                             *)
(*   - the decision search, POST /search (routes/search.js) with the       *)
(*     ranker of services/embeddings.js.                                   *)
(* Text is modelled as a sequence of one-character strings, so that the    *)
(* string functions of the code are computed character by character.       *)
(* The specifications share the variables:                                 *)
(*   SpecNorm       normalizeTitle applied to every title of a bounded set;*)
(*   Spec           the reconciler over the tasks table, under the event   *)
(*                  loop;                                                  *)
(*   SpecSearch     the search handler over a decisions table;             *)
(*   SpecCosine     cosineSimilarity applied to pairs of vectors;          *)
(*   SpecEmbed      POST /search/embed/:decisionId and embedDecision;      *)
(*   SpecDecision   POST /decisions, the decision with its links;          *)
(*   SpecTranscribe POST /recordings/:id/transcribe;                       *)
(*   SpecOps        the operations that write table tasks.                 *)
(***************************************************************************)
EXTENDS Integers, Sequences, FiniteSets, TLC

VARIABLES
    nt,          \* SpecNorm: the title given to normalizeTitle and its result
    tasks,       \* the rows of table tasks, in rowid order
    nextTaskId,  \* the AUTOINCREMENT counter of table tasks
    running,     \* the save-tasks request whose handler holds the JS thread, 0 if none
    st,          \* per save-tasks request: position, body, locals, response
    decisions,   \* the rows of table decisions, in rowid order
    configured,  \* whether process.env.OPENAI_API_KEY is set
    sr,          \* the search request: position, body, locals, response
    cs,          \* SpecCosine: the two vectors given to cosineSimilarity, the results
    er,          \* per embed request: position, locals, response
    links,       \* the rows of table links, in rowid order
    dr,          \* the decision-creation request: position, body, response
    recordings,  \* the rows of table recordings, in rowid order
    tr,          \* per transcribe request: position, locals, response
    tk           \* the last request to the routes of tasks.js: route, answer

vars == <<nt, tasks, nextTaskId, running, st, decisions, configured, sr,
          cs, er, links, dr, recordings, tr, tk>>

\* The variables of the specifications other than SpecNorm, Spec and
\* SpecSearch.
otherVars == <<cs, er, links, dr, recordings, tr, tk>>

----------------------------------------------------------------------------
(* Characters and the string functions normalizeTitle is made of.          *)

\* The upper-case letters of the modelled alphabet with their lower case.
UpperToLower == ("A" :> "a") @@ ("B" :> "b") @@ ("M" :> "m") @@ ("R" :> "r")

\* Characters matched by \s and removed by String.prototype.trim.
Whitespace == {" ", "\t"}

\* The character class [.,!?;:] of the trailing-punctuation regex.
Punctuation == {".", ",", "!", "?", ";", ":"}

\* The character class ['"] of the quote regex.
Quotes == {"'", "\""}

toLowerCase(s) ==
    [k \in 1..Len(s) |-> IF s[k] \in DOMAIN UpperToLower THEN UpperToLower[s[k]] ELSE s[k]]

RECURSIVE trimStart(_)
trimStart(s) ==
    IF s # <<>> /\ Head(s) \in Whitespace THEN trimStart(Tail(s)) ELSE s

RECURSIVE trimEnd(_)
trimEnd(s) ==
    IF s # <<>> /\ s[Len(s)] \in Whitespace THEN trimEnd(SubSeq(s, 1, Len(s) - 1)) ELSE s

trim(s) == trimEnd(trimStart(s))

\* .replace(/[.,!?;:]+$/g, ''): the run of punctuation that ends the string.
RECURSIVE stripTrailingPunctuation(_)
stripTrailingPunctuation(s) ==
    IF s # <<>> /\ s[Len(s)] \in Punctuation
    THEN stripTrailingPunctuation(SubSeq(s, 1, Len(s) - 1))
    ELSE s

\* .replace(/['"]/g, '')
IsNotQuote(c) == c \notin Quotes
removeQuotes(s) == SelectSeq(s, IsNotQuote)

\* .replace(/\s+/g, ' '): every maximal run of whitespace becomes one space.
RECURSIVE collapseWhitespace(_)
collapseWhitespace(s) ==
    IF s = <<>> THEN <<>>
    ELSE IF Head(s) \in Whitespace
         THEN <<" ">> \o collapseWhitespace(trimStart(s))
         ELSE <<Head(s)>> \o collapseWhitespace(Tail(s))

normalizeTitle(title) ==
    collapseWhitespace(removeQuotes(stripTrailingPunctuation(trim(toLowerCase(title)))))

----------------------------------------------------------------------------
(* SpecNorm: normalizeTitle on every title over NormAlphabet of length at  *)
(* most MaxTitleLen, and on the title the specification gives as example.  *)

MaxTitleLen == 4

NormAlphabet == {"a", "A", " ", "\t", ".", "!", "'"}

ExampleTitle ==
    <<" ", " ", "R", "e", "f", "a", "c", "t", "o", "r", " ", " ", " ",
      "A", "u", "t", "h", " ", " ", " ",
      "M", "o", "d", "u", "l", "e", "!", "!", " ", " ">>

ExampleNormalized ==
    <<"r", "e", "f", "a", "c", "t", "o", "r", " ", "a", "u", "t", "h", " ",
      "m", "o", "d", "u", "l", "e">>

NormInputs ==
    UNION {[1..k -> NormAlphabet] : k \in 0..MaxTitleLen} \cup {ExampleTitle}

NoTasksState ==
    /\ tasks = <<>>
    /\ nextTaskId = 1
    /\ running = 0
    /\ st = <<>>

NoSearchState ==
    /\ decisions = <<>>
    /\ configured = FALSE
    /\ sr = <<>>

NoCosineState == cs = <<>>

NoEmbedState == er = <<>>

NoDecisionState == links = <<>> /\ dr = <<>>

NoTranscribeState == recordings = <<>> /\ tr = <<>>

NoTaskRouteState == tk = <<>>

NoOtherState ==
    /\ NoCosineState
    /\ NoEmbedState
    /\ NoDecisionState
    /\ NoTranscribeState
    /\ NoTaskRouteState

InitNorm ==
    /\ nt \in [title : NormInputs, norm : {<<>>}, done : {FALSE}]
    /\ NoTasksState
    /\ NoSearchState
    /\ NoOtherState

Normalize ==
    /\ ~nt.done
    /\ nt' = [nt EXCEPT !.norm = normalizeTitle(nt.title), !.done = TRUE]
    /\ UNCHANGED <<tasks, nextTaskId, running, st, decisions, configured, sr,
                   otherVars>>

NextNorm == Normalize

SpecNorm == InitNorm /\ [][NextNorm]_vars

----------------------------------------------------------------------------
(* The tasks table and the reconciler, POST /ocr/save-tasks.               *)
(* The handler is a synchronous function: once called it runs to its       *)
(* response (or to the exception that leaves it) without returning to the  *)
(* event loop.  Its run is shown in steps, one per loop iteration, so that *)
(* the state between two writes can be named; `running` is the JS thread,  *)
(* which a handler takes when it is called and gives back when it ends.    *)

MaxRequests == 2
MaxBatch == 2

Requests == 1..MaxRequests

\* The ids of the rows of table projects; no handler modelled here changes it.
Projects == {1, 2}

\* The project ids a request can give: those of the projects, and one that
\* no row of table projects has.
ProjectIds == Projects \cup {3}

\* An element of req.body.tasks.  kind is what `typeof task` and a null test
\* tell apart; titleType is the type of the value read as the title:
\* "undefined" stands for every falsy value that is not a string, "number"
\* for a truthy value that is not a string.
StringEntry(t) ==
    [kind |-> "string", titleType |-> "string", title |-> t,
     status |-> "undefined", priority |-> "undefined"]
ObjectEntry(tt, t, s, p) ==
    [kind |-> "object", titleType |-> tt, title |-> t, status |-> s, priority |-> p]
NullEntry ==
    [kind |-> "null", titleType |-> "undefined", title |-> <<>>,
     status |-> "undefined", priority |-> "undefined"]

EntryPool ==
    { StringEntry(<<"a">>),
      StringEntry(<<" ", "A", ".">>),
      StringEntry(<<>>),
      ObjectEntry("string", <<"a">>, "done", "high"),
      ObjectEntry("string", <<"b">>, "in_progress", "urgent"),
      ObjectEntry("undefined", <<>>, "done", "low"),
      ObjectEntry("number", <<>>, "pending", "undefined"),
      NullEntry }

Batches == UNION {[1..k -> EntryPool] : k \in 0..MaxBatch}

Modes == {"merge", "create_new"}

\* req.body: projectId 0 stands for a missing project id, tasksIsArray
\* FALSE for a tasks value that is absent or not an array.
Bodies ==
    [projectId : ProjectIds, tasksIsArray : {TRUE}, tasks : Batches, mode : Modes]
    \cup [projectId : {0}, tasksIsArray : {TRUE}, tasks : {<<>>}, mode : {"merge"}]
    \cup [projectId : ProjectIds, tasksIsArray : {FALSE}, tasks : {<<>>}, mode : {"merge"}]

NoBody == [projectId |-> 0, tasksIsArray |-> FALSE, tasks |-> <<>>, mode |-> "merge"]

NoResponse ==
    [status |-> 0, created |-> 0, updated |-> 0, skipped |-> 0, total |-> 0,
     mode |-> "merge"]

IdleRequest ==
    [pc |-> "idle", body |-> NoBody, allExistingTasks |-> <<>>, i |-> 1,
     created |-> 0, updated |-> 0, skipped |-> 0, err |-> "none",
     resp |-> NoResponse]

\* A request that has been answered: the handler's locals are gone.
Answered(resp) == [IdleRequest EXCEPT !.pc = "done", !.resp = resp]

\* SELECT * FROM tasks WHERE projectId = ?
IsOfProject(pid, row) == row.projectId = pid
TasksOfProject(T, pid) == SelectSeq(T, LAMBDA row : IsOfProject(pid, row))

\* existingTasksMap.get(key): the map is filled in row order, a later row
\* with the same key replacing an earlier one.
MapHas(rows, key) == \E k \in 1..Len(rows) : normalizeTitle(rows[k].title) = key
MapGet(rows, key) ==
    LET ks == {k \in 1..Len(rows) : normalizeTitle(rows[k].title) = key}
    IN rows[CHOOSE k \in ks : \A j \in ks : j <= k]

\* const title = typeof task === 'string' ? task : task.title  (null throws)
EntryThrowsOnTitle(e) == e.kind = "null"
\* Mutant of HasNoTitle: the test is `title === undefined`, so that an empty
\* string passes it.
HasNoTitleOnlyUndefined(e) == e.titleType = "undefined"

\* if (!title) continue
HasNoTitle(e) == e.titleType = "undefined" \/ (e.titleType = "string" /\ e.title = <<>>)
\* normalizeTitle(title) calls title.toLowerCase
NormalizeThrows(e) == e.titleType # "string"

\* Mutant of EntryStatus: every valid status of the entry is kept.
EntryStatusKept(e) ==
    IF e.kind = "object" /\ e.status \in {"pending", "in_progress", "done"}
    THEN e.status ELSE "pending"

EntryStatus(e) == IF e.kind = "object" /\ e.status = "done" THEN "done" ELSE "pending"

\* Mutant of EntryPriority: the priority of the entry is not read.
EntryPriorityAlwaysMedium(e) == "medium"

\* Mutant of EntryPriority: the entry's priority is stored as it came.
EntryPriorityAsGiven(e) == IF e.kind = "object" THEN e.priority ELSE "medium"

EntryPriority(e) ==
    IF e.kind = "object" /\ e.priority \in {"low", "medium", "high"}
    THEN e.priority ELSE "medium"

\* FOREIGN KEY (projectId) REFERENCES projects(id), with foreign_keys = ON.
ForeignKeyHolds(pid) == pid \in Projects

\* INSERT INTO tasks (projectId, title, status, priority) VALUES (?, ?, ?, ?)
InsertTask(T, id, pid, title, status, priority) ==
    Append(T, [id |-> id, projectId |-> pid, title |-> title,
               status |-> status, priority |-> priority])

\* Mutant of UpdateTaskStatus: the statement also sets the priority.
UpdateTaskStatusAndPriority(T, status, id) ==
    [k \in 1..Len(T) |->
        IF T[k].id = id THEN [T[k] EXCEPT !.status = status, !.priority = "low"] ELSE T[k]]

\* UPDATE tasks SET status = ? WHERE id = ?
UpdateTaskStatus(T, status, id) ==
    [k \in 1..Len(T) |-> IF T[k].id = id THEN [T[k] EXCEPT !.status = status] ELSE T[k]]

InitTasks ==
    /\ tasks = <<>>
    /\ nextTaskId = 1
    /\ running = 0
    /\ st = [r \in Requests |-> IdleRequest]

Init ==
    /\ InitTasks
    /\ nt = [title |-> <<>>, norm |-> <<>>, done |-> FALSE]
    /\ NoSearchState
    /\ NoOtherState

\* Mutant of ThreadFree: a handler is called while another one is running, as
\* if the running one had yielded at an await.
ThreadFreeWhileRunning == TRUE

\* The event loop calls a handler only when no handler is running.
ThreadFree == running = 0

\* Mutant of BodyInvalid: only the project id is validated.
BodyInvalidProjectOnly(body) == body.projectId = 0

\* if (!projectId || !tasks || !Array.isArray(tasks))
BodyInvalid(body) == body.projectId = 0 \/ ~body.tasksIsArray

\* Lines 989-1012: validation, the snapshot of the project's tasks, counters.
SaveTasksBegin(r) ==
    /\ ThreadFree
    /\ st[r].pc = "idle"
    /\ \E body \in Bodies :
         IF BodyInvalid(body)
         THEN /\ st' = [st EXCEPT ![r] = Answered([NoResponse EXCEPT !.status = 400])]
              /\ UNCHANGED running
         ELSE /\ st' = [st EXCEPT
                    ![r].pc = IF body.tasks = <<>> THEN "respond" ELSE "loop",
                    ![r].body = body,
                    ![r].allExistingTasks = TasksOfProject(tasks, body.projectId)]
              /\ running' = r
    /\ UNCHANGED <<tasks, nextTaskId, nt, decisions, configured, sr, otherVars>>

\* Mutant of AfterFailedWrite: the loop runs in a transaction that the
\* exception rolls back, so the rows the batch inserted are gone.
AfterFailedWriteRolledBack(T, s) ==
    SelectSeq(T, LAMBDA row :
        \/ row.projectId # s.body.projectId
        \/ \E m \in 1..Len(s.allExistingTasks) : s.allExistingTasks[m].id = row.id)

\* The table after a statement threw.  The statements run in autocommit (no
\* db.transaction wraps the loop): the failed one changes nothing, and the
\* rows written by the earlier iterations stay.
AfterFailedWrite(T, s) == T

\* After the iteration for entry i: the next entry, or the response.
Advance(s) ==
    [s EXCEPT !.i = s.i + 1,
              !.pc = IF s.i + 1 > Len(s.body.tasks) THEN "respond" ELSE "loop"]

Throw(s, what) == [s EXCEPT !.pc = "failed", !.err = what]

\* Lines 1014-1044: one iteration of the loop over req.body.tasks.  dbOk is
\* whether the statement the iteration runs, if any, meets no error of the
\* database other than a violated constraint.
SaveTasksEntry(r) ==
    /\ st[r].pc = "loop"
    /\ \E dbOk \in BOOLEAN :
        LET s == st[r]
            e == s.body.tasks[s.i]
            pid == s.body.projectId
            status == EntryStatus(e)
            priority == EntryPriority(e)
            key == normalizeTitle(e.title)
            insert ==
                IF dbOk /\ ForeignKeyHolds(pid)
                THEN /\ tasks' = InsertTask(tasks, nextTaskId, pid, trim(e.title),
                                            status, priority)
                     /\ nextTaskId' = nextTaskId + 1
                     /\ st' = [st EXCEPT ![r] = Advance([s EXCEPT !.created = s.created + 1])]
                ELSE /\ st' = [st EXCEPT ![r] = Throw(s, "SqliteError")]
                     /\ tasks' = AfterFailedWrite(tasks, s)
                     /\ UNCHANGED nextTaskId
        IN
        IF EntryThrowsOnTitle(e)
        THEN /\ st' = [st EXCEPT ![r] = Throw(s, "TypeError")]
             /\ UNCHANGED <<tasks, nextTaskId>>
        ELSE IF HasNoTitle(e)
        THEN /\ st' = [st EXCEPT ![r] = Advance(s)]
             /\ UNCHANGED <<tasks, nextTaskId>>
        ELSE IF NormalizeThrows(e)
        THEN /\ st' = [st EXCEPT ![r] = Throw(s, "TypeError")]
             /\ UNCHANGED <<tasks, nextTaskId>>
        ELSE IF s.body.mode = "create_new"
        THEN insert
        ELSE IF MapHas(s.allExistingTasks, key)
        THEN LET existingTask == MapGet(s.allExistingTasks, key) IN
             IF status = "done" /\ existingTask.status # "done"
             THEN IF dbOk
                  THEN /\ tasks' = UpdateTaskStatus(tasks, "done", existingTask.id)
                       /\ st' = [st EXCEPT ![r] = Advance([s EXCEPT !.updated = s.updated + 1])]
                       /\ UNCHANGED nextTaskId
                  ELSE /\ st' = [st EXCEPT ![r] = Throw(s, "SqliteError")]
                       /\ tasks' = AfterFailedWrite(tasks, s)
                       /\ UNCHANGED nextTaskId
             ELSE /\ st' = [st EXCEPT ![r] = Advance([s EXCEPT !.skipped = s.skipped + 1])]
                  /\ UNCHANGED <<tasks, nextTaskId>>
        ELSE insert
    /\ UNCHANGED <<running, nt, decisions, configured, sr, otherVars>>

\* Mutant of StatsResponse: created reports the length of the batch.
StatsResponseCountsEveryEntry(s) ==
    [status |-> 200, created |-> Len(s.body.tasks), updated |-> s.updated,
     skipped |-> s.skipped, total |-> Len(s.body.tasks), mode |-> s.body.mode]

\* { success: true, stats: { created, updated, skipped, total: tasks.length }, mode }
StatsResponse(s) ==
    [status |-> 200, created |-> s.created, updated |-> s.updated,
     skipped |-> s.skipped, total |-> Len(s.body.tasks), mode |-> s.body.mode]

\* Lines 1046-1050: res.json(...); the handler returns.
SaveTasksRespond(r) ==
    /\ st[r].pc = "respond"
    /\ st' = [st EXCEPT ![r] = Answered(StatsResponse(st[r]))]
    /\ running' = 0
    /\ UNCHANGED <<tasks, nextTaskId, nt, decisions, configured, sr, otherVars>>

\* index.js: the error middleware answers an exception that left a handler.
ErrorMiddleware(r) ==
    /\ st[r].pc = "failed"
    /\ st' = [st EXCEPT ![r] = Answered([NoResponse EXCEPT !.status = 500])]
    /\ running' = 0
    /\ UNCHANGED <<tasks, nextTaskId, nt, decisions, configured, sr, otherVars>>

Next ==
    \E r \in Requests :
        \/ SaveTasksBegin(r)
        \/ SaveTasksEntry(r)
        \/ SaveTasksRespond(r)
        \/ ErrorMiddleware(r)

Spec == Init /\ [][Next]_vars

----------------------------------------------------------------------------
(* Properties of the reconciler.  A request r is in flight between its     *)
(* snapshot and its answer; then entries 1 .. st[r].i - 1 of its batch     *)
(* have been processed, and in state "failed" entry st[r].i is the one     *)
(* whose iteration threw.                                                  *)

InFlight == {"loop", "respond", "failed"}

Batch(r) == st[r].body.tasks
Snapshot(r) == st[r].allExistingTasks
ProjectRows(r) == TasksOfProject(tasks, st[r].body.projectId)

\* The rows of the request's project that its snapshot did not hold.
NewRows(r) == SubSeq(ProjectRows(r), Len(Snapshot(r)) + 1, Len(ProjectRows(r)))

\* An entry that gives no title: an empty string, or an object whose title
\* is absent or empty.
EntryWithoutTitle(e) ==
    /\ e.kind \in {"string", "object"}
    /\ e.titleType = "undefined" \/ (e.titleType = "string" /\ e.title = <<>>)

\* An entry that gives a title: a non-empty string.
EntryWithTitle(e) ==
    e.kind \in {"string", "object"} /\ e.titleType = "string" /\ e.title # <<>>

\* null, an object without a title, or a title that is not a string.
Malformed(e) ==
    e.kind = "null" \/ (e.kind = "object" /\ e.titleType # "string")

DistinctTitles(rows) ==
    \A j, k \in 1..Len(rows) :
        j # k => normalizeTitle(rows[j].title) # normalizeTitle(rows[k].title)

\* C1: in merge mode, from a project in which no two tasks share a
\* normalized title, a batch never leaves the project with two tasks whose
\* normalized titles are equal.
C1_MergeLeavesNoDuplicate ==
    \A r \in Requests :
        (/\ st[r].pc \in {"respond", "failed"}
         /\ st[r].body.mode = "merge"
         /\ DistinctTitles(Snapshot(r)))
        => DistinctTitles(ProjectRows(r))

\* C3: the reconciler never fails on a malformed entry (null, an object
\* without a title, a title that is not a string): the iteration that throws
\* is never that of a malformed entry.
C3_MalformedEntrySkipped ==
    \A r \in Requests :
        st[r].pc = "failed" => ~Malformed(Batch(r)[st[r].i])

\* C4 as stated: an entry without a title is counted in none of created,
\* updated, skipped and total, so the reported total is the number of
\* entries that give a title.
C4_TitlelessNotInTotal ==
    \A r \in Requests :
        st[r].pc = "respond" =>
            StatsResponse(st[r]).total =
                Cardinality({k \in 1..Len(Batch(r)) : ~EntryWithoutTitle(Batch(r)[k])})

\* C4 as amended: an entry without a title causes no write and no error and
\* is counted in none of created, updated and skipped; the reported total is
\* the length of the batch, and so counts it.
C4_TitlelessDropped ==
    \A r \in Requests :
        st[r].pc \in InFlight =>
            LET n == st[r].i - 1
                changed == {m \in 1..Len(Snapshot(r)) : ProjectRows(r)[m] # Snapshot(r)[m]}
            IN
            /\ st[r].created + st[r].updated + st[r].skipped =
                   Cardinality({k \in 1..n : ~EntryWithoutTitle(Batch(r)[k])})
            /\ Len(NewRows(r)) = st[r].created
            /\ Cardinality(changed) <= st[r].updated
            /\ st[r].pc = "failed" => ~EntryWithoutTitle(Batch(r)[st[r].i])
            /\ st[r].pc = "respond" =>
                   /\ StatsResponse(st[r]).status = 200
                   /\ StatsResponse(st[r]).total = Len(Batch(r))

C4_Witness ==
    \E r \in Requests :
        /\ st[r].pc = "respond"
        /\ Len(Batch(r)) = 2
        /\ EntryWithoutTitle(Batch(r)[1])
        /\ EntryWithTitle(Batch(r)[2])
        /\ st[r].created = 1

\* C5 as stated: nothing prevents a second batch from reading its snapshot
\* while a first batch has read its own and has not finished writing.
C5_SecondBatchCanStart ==
    \A r1, r2 \in Requests :
        (r1 # r2 /\ st[r1].pc \in {"loop", "respond"} /\ st[r2].pc = "idle")
        => ENABLED SaveTasksBegin(r2)

\* C5 as amended: two batches never interleave.  While a batch is in flight
\* it holds the thread, no other batch is in flight, and the project's tasks
\* differ from its snapshot only by its own writes: the rows it inserted and
\* the rows it set to done.
C5_BatchesSerialized ==
    \A r \in Requests :
        st[r].pc \in InFlight =>
            /\ running = r
            /\ \A r2 \in Requests \ {r} : st[r2].pc \notin InFlight
            /\ Len(ProjectRows(r)) = Len(Snapshot(r)) + st[r].created
            /\ \A m \in 1..Len(Snapshot(r)) :
                   \/ ProjectRows(r)[m] = Snapshot(r)[m]
                   \/ /\ st[r].updated > 0
                      /\ ProjectRows(r)[m] = [Snapshot(r)[m] EXCEPT !.status = "done"]

C5_Witness ==
    \E r1, r2 \in Requests :
        /\ st[r1].pc = "loop"
        /\ st[r1].created = 1
        /\ st[r2].pc = "idle"
        /\ ~ENABLED SaveTasksBegin(r2)

\* What C7 says is stored for an entry.
OwnStatus(e) ==
    IF e.kind = "object" /\ e.status \in {"pending", "in_progress", "done"}
    THEN e.status ELSE "pending"
ValidatedPriority(e) ==
    IF e.kind = "object" /\ e.priority \in {"low", "medium", "high"}
    THEN e.priority ELSE "medium"

\* C7 as stated: in create_new mode every entry with a title becomes one new
\* task, whatever the existing tasks, with the entry's own status (pending,
\* in_progress or done; pending when absent) and its validated priority.
C7_CreateNewKeepsOwnStatus ==
    \A r \in Requests :
        (st[r].pc = "respond" /\ st[r].body.mode = "create_new") =>
            LET titled == SelectSeq(Batch(r), EntryWithTitle) IN
            /\ Len(NewRows(r)) = Len(titled)
            /\ \A k \in 1..Len(titled) :
                   /\ NewRows(r)[k].status = OwnStatus(titled[k])
                   /\ NewRows(r)[k].priority = ValidatedPriority(titled[k])

\* C7 as amended: in create_new mode every entry with a title that the loop
\* has processed has become one new task of the project, whatever the
\* existing tasks, with its trimmed title, status done when the entry is an
\* object that reports done and pending otherwise (in_progress is stored as
\* pending), and its validated priority.
C7_CreateNewStoresDoneOrPending ==
    \A r \in Requests :
        (st[r].pc \in InFlight /\ st[r].body.mode = "create_new") =>
            LET titled == SelectSeq(SubSeq(Batch(r), 1, st[r].i - 1), EntryWithTitle) IN
            /\ Len(NewRows(r)) = Len(titled)
            /\ \A k \in 1..Len(titled) :
                   /\ NewRows(r)[k].title = trim(titled[k].title)
                   /\ NewRows(r)[k].status =
                          (IF titled[k].kind = "object" /\ titled[k].status = "done"
                           THEN "done" ELSE "pending")
                   /\ NewRows(r)[k].priority = ValidatedPriority(titled[k])

C7_Witness ==
    \E r \in Requests :
        /\ st[r].pc = "respond"
        /\ st[r].body.mode = "create_new"
        /\ Len(Batch(r)) = 2
        /\ \A k \in 1..2 : Batch(r)[k].kind = "object" /\ EntryWithTitle(Batch(r)[k])
        /\ Batch(r)[1].status = "in_progress"
        /\ Batch(r)[2].status = "done"
        /\ \E m \in 1..Len(Snapshot(r)) :
               normalizeTitle(Snapshot(r)[m].title) = normalizeTitle(Batch(r)[2].title)

\* The entries among the first n of the batch whose iteration inserts a row,
\* and those whose iteration sets an existing row to done.
Inserting(r, n) ==
    {k \in 1..n :
        /\ EntryWithTitle(Batch(r)[k])
        /\ \/ st[r].body.mode = "create_new"
           \/ ~MapHas(Snapshot(r), normalizeTitle(Batch(r)[k].title))}
Updating(r, n) ==
    {k \in 1..n :
        /\ EntryWithTitle(Batch(r)[k])
        /\ st[r].body.mode # "create_new"
        /\ MapHas(Snapshot(r), normalizeTitle(Batch(r)[k].title))
        /\ Batch(r)[k].kind = "object" /\ Batch(r)[k].status = "done"
        /\ MapGet(Snapshot(r), normalizeTitle(Batch(r)[k].title)).status # "done"}

\* C10: writes are applied one entry at a time in input order with no
\* enclosing transaction.  With entries 1 .. i-1 processed (entry i being the
\* one whose write failed, if one did), the project holds the snapshot's rows,
\* those that an entry before i updates set to done, followed by one row per
\* inserting entry before i in input order; no entry from i on has written.
C10_WritesInInputOrderStay ==
    \A r \in Requests :
        st[r].pc \in InFlight =>
            LET n == st[r].i - 1
                ins == SelectSeq([k \in 1..n |-> k], LAMBDA k : k \in Inserting(r, n))
            IN
            /\ Len(NewRows(r)) = Len(ins)
            /\ \A j \in 1..Len(ins) :
                   NewRows(r)[j].title = trim(Batch(r)[ins[j]].title)
            /\ \A m \in 1..Len(Snapshot(r)) :
                   ProjectRows(r)[m] =
                       IF \E k \in Updating(r, n) :
                              MapGet(Snapshot(r), normalizeTitle(Batch(r)[k].title)).id
                                  = Snapshot(r)[m].id
                       THEN [Snapshot(r)[m] EXCEPT !.status = "done"]
                       ELSE Snapshot(r)[m]

C10_Witness ==
    \E r \in Requests :
        /\ st[r].pc = "failed"
        /\ st[r].err = "SqliteError"
        /\ st[r].i = 2
        /\ Len(NewRows(r)) = 1
        /\ EntryWithTitle(Batch(r)[2])

\* The status of the answer to a request that has left the loop: that of
\* the stats response, or the 500 of the error middleware.
AnswerStatus(r) ==
    IF st[r].pc = "respond" THEN StatsResponse(st[r]).status ELSE 500

\* C11: a reconcile request that references a project that does not exist is
\* answered with a NotFound error (404), and writes nothing.
C11_MissingProjectNotFound ==
    \A r \in Requests :
        (st[r].pc \in {"respond", "failed"} /\ st[r].body.projectId \notin Projects)
        => /\ AnswerStatus(r) = 404
           /\ ProjectRows(r) = Snapshot(r)

\* The entry the loop of request r is at, and what the claims say of it.
Entry(r) == Batch(r)[st[r].i]
ReportsDone(e) == e.kind = "object" /\ e.status = "done"

\* The rows among `rows` whose normalized title is that of entry e.
Matching(rows, e) ==
    {m \in 1..Len(rows) : normalizeTitle(rows[m].title) = normalizeTitle(e.title)}

\* A step in which the loop of a merge-mode request r processes an entry that
\* gives a title, without an exception.
MergeEntryProcessed(r) ==
    /\ st[r].pc = "loop"
    /\ st[r].body.mode = "merge"
    /\ EntryWithTitle(Entry(r))
    /\ st'[r].pc \in {"loop", "respond"}
    /\ st'[r].i = st[r].i + 1

\* The counters of request r move by c, u and s in the step.
Counted(r, c, u, s) ==
    /\ st'[r].created = st[r].created + c
    /\ st'[r].updated = st[r].updated + u
    /\ st'[r].skipped = st[r].skipped + s

\* C12: in merge mode, an entry whose normalized title is that of an existing
\* task of the project (the only one with that title), and that reports done
\* while that task is not done, sets that task to done, creates no task and
\* is counted once as updated.
C12_MatchingDoneEntryUpdates ==
    [][\A r \in Requests :
        MergeEntryProcessed(r) =>
            LET rows == ProjectRows(r)
                M == Matching(rows, Entry(r))
            IN
            (/\ Cardinality(M) = 1
             /\ ReportsDone(Entry(r))
             /\ \A m \in M : rows[m].status # "done")
            => /\ TasksOfProject(tasks', st[r].body.projectId) =
                      [m \in 1..Len(rows) |->
                          IF m \in M THEN [rows[m] EXCEPT !.status = "done"] ELSE rows[m]]
               /\ Counted(r, 0, 1, 0)
    ]_vars

\* C13: in merge mode, an entry whose normalized title is that of an existing
\* task of the project is counted as skipped and causes no write when the
\* existing tasks with that title are already done, whatever status the entry
\* reports, and also when the entry does not report done.
C13_MatchingEntrySkipped ==
    [][\A r \in Requests :
        MergeEntryProcessed(r) =>
            LET rows == ProjectRows(r)
                M == Matching(rows, Entry(r))
            IN
            (/\ M # {}
             /\ \/ \A m \in M : rows[m].status = "done"
                \/ ~ReportsDone(Entry(r)))
            => /\ tasks' = tasks
               /\ Counted(r, 0, 0, 1)
    ]_vars

\* The task C14 says an entry without a match creates, with the given status.
CreatedTask(r, e, status) ==
    [id |-> nextTaskId, projectId |-> st[r].body.projectId, title |-> trim(e.title),
     status |-> status, priority |-> ValidatedPriority(e)]

\* C14 as stated: in merge mode, an entry whose normalized title is that of no
\* existing task of the project creates exactly one new task with the entry's
\* title, its own status and its priority, and is counted as created.
C14_UnmatchedEntryCreatesWithOwnStatus ==
    [][\A r \in Requests :
        (MergeEntryProcessed(r) /\ Matching(ProjectRows(r), Entry(r)) = {})
        => /\ tasks' = Append(tasks, CreatedTask(r, Entry(r), OwnStatus(Entry(r))))
           /\ Counted(r, 1, 0, 0)
    ]_vars

\* C14 as amended: in merge mode, an entry whose normalized title is that of
\* no existing task of the project creates exactly one new task with the
\* entry's trimmed title, status done when the entry is an object that
\* reports done and pending otherwise, and its validated priority, and is
\* counted as created.
C14_UnmatchedEntryCreates ==
    [][\A r \in Requests :
        (MergeEntryProcessed(r) /\ Matching(ProjectRows(r), Entry(r)) = {})
        => /\ tasks' = Append(tasks,
                  CreatedTask(r, Entry(r),
                              IF ReportsDone(Entry(r)) THEN "done" ELSE "pending"))
           /\ Counted(r, 1, 0, 0)
    ]_vars

\* A merge batch on a project with a task "a" has created a task from an
\* entry "b" that reports in_progress.
C14_Witness ==
    \E r \in Requests :
        /\ st[r].pc \in {"loop", "respond"}
        /\ st[r].body.mode = "merge"
        /\ st[r].i = 2
        /\ st[r].created = 1
        /\ Snapshot(r) # <<>>
        /\ Batch(r)[1].status = "in_progress"
        /\ NewRows(r)[1].status = "pending"

\* C15: in create_new mode the reported created count is the number of
\* entries with a non-empty title, and updated and skipped are both 0,
\* whatever the batch and the existing tasks; while the loop runs, created is
\* that number among the entries processed.
C15_CreateNewCounts ==
    \A r \in Requests :
        (st[r].pc \in InFlight /\ st[r].body.mode = "create_new") =>
            /\ st[r].created =
                   Cardinality({k \in 1..(st[r].i - 1) : EntryWithTitle(Batch(r)[k])})
            /\ st[r].updated = 0
            /\ st[r].skipped = 0
            /\ st[r].pc = "respond" =>
                   /\ StatsResponse(st[r]).created =
                          Cardinality({k \in 1..Len(Batch(r)) : EntryWithTitle(Batch(r)[k])})
                   /\ StatsResponse(st[r]).updated = 0
                   /\ StatsResponse(st[r]).skipped = 0

\* A create_new batch of an entry without a title and an entry whose title an
\* existing task has is about to be answered.
C15_Witness ==
    \E r \in Requests :
        /\ st[r].pc = "respond"
        /\ st[r].body.mode = "create_new"
        /\ Len(Batch(r)) = 2
        /\ EntryWithoutTitle(Batch(r)[1])
        /\ EntryWithTitle(Batch(r)[2])
        /\ Matching(Snapshot(r), Batch(r)[2]) # {}
        /\ StatsResponse(st[r]).created = 1

\* C20: a reconcile request with a missing project id or with entries that
\* are not an array is rejected with InvalidInput (400) and reads and writes
\* no task: a request that is called either is answered 400 at once, with no
\* snapshot taken and the table as it was, or has a project id and an array.
C20_InvalidBodyRejected ==
    [][\A r \in Requests :
        (st[r].pc = "idle" /\ st'[r].pc # "idle") =>
            IF st'[r].pc = "done"
            THEN /\ st'[r].resp.status = 400
                 /\ st'[r].allExistingTasks = <<>>
                 /\ tasks' = tasks
                 /\ nextTaskId' = nextTaskId
            ELSE /\ st'[r].body.projectId # 0
                 /\ st'[r].body.tasksIsArray
                 /\ st'[r].resp.status = 0
    ]_vars

\* A request was rejected while the table held tasks.
C20_Witness ==
    \E r \in Requests :
        /\ st[r].pc = "done"
        /\ st[r].resp.status = 400
        /\ tasks # <<>>

\* C25: in merge mode the reported updated count is the number of existing
\* tasks whose status changed from not done to done during the batch, also
\* when several entries of the batch normalize to the same title.
C25_UpdatedCountsChangedTasks ==
    \A r \in Requests :
        (st[r].pc = "respond" /\ st[r].body.mode = "merge") =>
            StatsResponse(st[r]).updated =
                Cardinality({m \in 1..Len(Snapshot(r)) :
                                /\ Snapshot(r)[m].status # "done"
                                /\ ProjectRows(r)[m].status = "done"})

\* C26: when the project holds several tasks with the same normalized title,
\* a merge-mode entry with that title that reports done leaves every one of
\* them done: after the batch no task of the project with that normalized
\* title is not done.
C26_AllDuplicatesDone ==
    \A r \in Requests :
        (st[r].pc = "respond" /\ st[r].body.mode = "merge") =>
            \A k \in 1..Len(Batch(r)) :
                (EntryWithTitle(Batch(r)[k]) /\ ReportsDone(Batch(r)[k])) =>
                    \A m \in Matching(Snapshot(r), Batch(r)[k]) :
                        ProjectRows(r)[m].status = "done"

\* C27: a merge-mode reconcile never deletes a task, never changes the title
\* or the priority of an existing task, never changes a task of another
\* project, and never moves an existing task out of status done: in every
\* step of its loop each row stays in its place with its id, project, title
\* and priority, its status stays or becomes done, the rows of other projects
\* stay as they are, and a row that is added is a row of the request's
\* project.
C27_MergeFrame ==
    [][\A r \in Requests :
        (st[r].pc = "loop" /\ st[r].body.mode = "merge") =>
            /\ Len(tasks') >= Len(tasks)
            /\ \A k \in 1..Len(tasks) :
                   /\ tasks'[k].id = tasks[k].id
                   /\ tasks'[k].projectId = tasks[k].projectId
                   /\ tasks'[k].title = tasks[k].title
                   /\ tasks'[k].priority = tasks[k].priority
                   /\ tasks'[k].status \in {tasks[k].status, "done"}
                   /\ tasks[k].projectId # st[r].body.projectId => tasks'[k] = tasks[k]
            /\ \A k \in (Len(tasks) + 1)..Len(tasks') :
                   tasks'[k].projectId = st[r].body.projectId
    ]_vars

\* A merge batch has set a task to done and inserted a task, in a project
\* that held a task that was done already.
C27_Witness ==
    \E r \in Requests :
        /\ st[r].pc = "respond"
        /\ st[r].body.mode = "merge"
        /\ st[r].updated = 1
        /\ st[r].created = 1
        /\ \E m \in 1..Len(Snapshot(r)) : Snapshot(r)[m].status = "done"

----------------------------------------------------------------------------
(* The decisions table and the search handler, POST /search.               *)
(* The handler is an async function: it returns to the event loop at the   *)
(* await of the embedding call and at the await of the chat call, and runs *)
(* without interruption between them.  The table is given and does not     *)
(* change while the searches run.                                          *)

MaxDecisions == 11
MaxPattern == 2
MaxPerSecond == 2

\* SQL NULL in a text column: a one-element sequence that is no text, since a
\* text is made of one-character strings.
NULL == <<"NULL">>

\* Kinds of decision rows, without id and createdAt.  Texts are stored
\* trimmed, and NULL when empty (routes/decisions.js); embedded tells
\* whether column embedding is not NULL, embedding is the stored vector.
DecisionKinds ==
    { [projectId |-> 1, title |-> <<"a", "b">>, description |-> NULL, reason |-> NULL,
       consequences |-> NULL, embedded |-> TRUE, embedding |-> <<1, 0>>],
      [projectId |-> 1, title |-> <<"b">>, description |-> <<"A">>, reason |-> NULL,
       consequences |-> NULL, embedded |-> TRUE, embedding |-> <<1, 1>>],
      [projectId |-> 2, title |-> <<"a", "b">>, description |-> NULL, reason |-> NULL,
       consequences |-> NULL, embedded |-> TRUE, embedding |-> <<1, 0>>],
      [projectId |-> 1, title |-> <<"c">>, description |-> NULL, reason |-> <<"a">>,
       consequences |-> NULL, embedded |-> FALSE, embedding |-> <<>>],
      [projectId |-> 1, title |-> <<"c">>, description |-> NULL, reason |-> NULL,
       consequences |-> <<"c">>, embedded |-> TRUE, embedding |-> <<1, 4>>],
      [projectId |-> 1, title |-> <<"c">>, description |-> NULL, reason |-> NULL,
       consequences |-> NULL, embedded |-> TRUE, embedding |-> <<0, 0>>],
      [projectId |-> 1, title |-> <<"c">>, description |-> NULL, reason |-> NULL,
       consequences |-> NULL, embedded |-> TRUE, embedding |-> <<1, 0, 0>>] }

\* A table of n rows whose kinds repeat the pattern p, perSecond of them
\* created within each second of the clock of datetime('now').
DecisionTable(p, n, perSecond) ==
    [k \in 1..n |->
        LET kind == p[((k - 1) % Len(p)) + 1] IN
        [id |-> k, projectId |-> kind.projectId, title |-> kind.title,
         description |-> kind.description, reason |-> kind.reason,
         consequences |-> kind.consequences, createdAt |-> (k - 1) \div perSecond,
         embedded |-> kind.embedded, embedding |-> kind.embedding]]

\* A pattern that holds, for project 1, embeddings above and below the
\* threshold, one of norm zero and one of another length than the query's.
MixedPattern ==
    << [projectId |-> 1, title |-> <<"c">>, description |-> NULL, reason |-> NULL,
        consequences |-> <<"c">>, embedded |-> TRUE, embedding |-> <<1, 4>>],
       [projectId |-> 1, title |-> <<"c">>, description |-> NULL, reason |-> NULL,
        consequences |-> NULL, embedded |-> TRUE, embedding |-> <<0, 0>>],
       [projectId |-> 1, title |-> <<"b">>, description |-> <<"A">>, reason |-> NULL,
        consequences |-> NULL, embedded |-> TRUE, embedding |-> <<1, 1>>],
       [projectId |-> 1, title |-> <<"c">>, description |-> NULL, reason |-> NULL,
        consequences |-> NULL, embedded |-> TRUE, embedding |-> <<1, 0, 0>>],
       [projectId |-> 1, title |-> <<"a", "b">>, description |-> NULL, reason |-> NULL,
        consequences |-> NULL, embedded |-> TRUE, embedding |-> <<1, 0>>] >>

DecisionTables ==
    {DecisionTable(p, n, c) :
        p \in UNION {[1..k -> DecisionKinds] : k \in 1..MaxPattern} \cup {MixedPattern},
        n \in 0..MaxDecisions,
        c \in 1..MaxPerSecond}

\* req.body of a search: projectId 0 stands for a missing project id, the
\* empty query for a missing or empty one.
Queries == {<<>>, <<" ">>, <<"a">>, <<"B">>, <<"_">>}
SearchBodies == [projectId : {0} \cup ProjectIds, query : Queries]

\* What the embedding call can resolve to for a query.
QueryVectors == {<<1, 0>>, <<0, 1>>}

\* What the chat call can resolve to: a content, or no content.
Answers == {"text", "null"}

NoSearchResponse ==
    [status |-> 0, mode |-> "none", results |-> <<>>, answer |-> "null", error |-> "none"]

\* The search request: queryEmbedding is what the embedding call resolved
\* to, err is the call whose rejection the handler caught.
IdleSearch ==
    [pc |-> "idle", body |-> [projectId |-> 0, query |-> <<>>], queryEmbedding |-> <<>>,
     results |-> <<>>, err |-> "none", resp |-> NoSearchResponse]

\* text LIKE pattern, for a text that is not NULL: % matches any run of
\* characters, _ any one character, a letter matches in either case.
RECURSIVE LikeMatch(_, _)
LikeMatch(pattern, text) ==
    IF pattern = <<>> THEN text = <<>>
    ELSE IF Head(pattern) = "%"
         THEN \/ LikeMatch(Tail(pattern), text)
              \/ text # <<>> /\ LikeMatch(pattern, Tail(text))
    ELSE IF text = <<>> THEN FALSE
    ELSE IF Head(pattern) = "_" THEN LikeMatch(Tail(pattern), Tail(text))
    ELSE /\ toLowerCase(<<Head(pattern)>>) = toLowerCase(<<Head(text)>>)
         /\ LikeMatch(Tail(pattern), Tail(text))

\* column LIKE ?  in a WHERE clause: NULL LIKE ? is NULL, which is not true.
SqlLike(column, pattern) == column # NULL /\ LikeMatch(pattern, column)

\* `%${query}%`
Contains(query) == <<"%">> \o query \o <<"%">>

\* Mutant of TextMatches: the WHERE clause lacks projectId = ?.
TextMatchesAnyProject(row, pid, query) ==
    \/ SqlLike(row.title, Contains(query))
    \/ SqlLike(row.description, Contains(query))
    \/ SqlLike(row.reason, Contains(query))
    \/ SqlLike(row.consequences, Contains(query))

\* WHERE projectId = ? AND (title LIKE ? OR description LIKE ? OR ...)
TextMatches(row, pid, query) ==
    /\ row.projectId = pid
    /\ \/ SqlLike(row.title, Contains(query))
       \/ SqlLike(row.description, Contains(query))
       \/ SqlLike(row.reason, Contains(query))
       \/ SqlLike(row.consequences, Contains(query))

\* ORDER BY createdAt DESC: rows in decreasing createdAt.  SQL leaves the
\* order of rows with equal createdAt open; tiesAscending tells whether
\* such rows come in increasing or in decreasing rowid.
RECURSIVE OrderByCreatedAtDesc(_, _)
OrderByCreatedAtDesc(rows, tiesAscending) ==
    IF rows = {} THEN <<>>
    ELSE LET first == CHOOSE x \in rows : \A y \in rows \ {x} :
                          \/ x.createdAt > y.createdAt
                          \/ /\ x.createdAt = y.createdAt
                             /\ IF tiesAscending THEN x.id < y.id ELSE x.id > y.id
         IN <<first>> \o OrderByCreatedAtDesc(rows \ {first}, tiesAscending)

\* LIMIT 10 of the text search.
TextLimit == 10

Limit(rows, n) == SubSeq(rows, 1, IF Len(rows) < n THEN Len(rows) ELSE n)

\* The SELECT of the text fallback (lines 28-45).
TextSearch(D, pid, query, tiesAscending) ==
    Limit(OrderByCreatedAtDesc({D[k] : k \in {j \in 1..Len(D) : TextMatches(D[j], pid, query)}},
                               tiesAscending),
          TextLimit)

\* results.map(r => ({ ...r, score: 1 })): a score is kept as the pair
\* (dot, sq) that stands for dot / sqrt(sq); the fixed score 1 is (1, 1).
FixedScore == [dot |-> 1, sq |-> 1]
TextResult(row) == [id |-> row.id, createdAt |-> row.createdAt, score |-> FixedScore]

\* cosineSimilarity(a, b) as the pair (dot, sq) with sq = normA * normB: the
\* number it returns is dot / sqrt(sq), NaN when sq = 0, and 0 when the
\* lengths differ.
RECURSIVE DotProduct(_, _)
DotProduct(a, b) ==
    IF a = <<>> THEN 0 ELSE Head(a) * Head(b) + DotProduct(Tail(a), Tail(b))

\* Mutant of cosineSimilarity: normB is accumulated from a.
cosineSimilarityNormOfFirst(a, b) ==
    IF Len(a) # Len(b) THEN [dot |-> 0, sq |-> 1]
    ELSE [dot |-> DotProduct(a, b), sq |-> DotProduct(a, a) * DotProduct(a, a)]

cosineSimilarity(a, b) ==
    IF Len(a) # Len(b) THEN [dot |-> 0, sq |-> 1]
    ELSE [dot |-> DotProduct(a, b), sq |-> DotProduct(a, a) * DotProduct(b, b)]

\* Mutant of AboveThreshold: the filter is !(d.score <= 0.3), true for NaN.
NotAtOrBelowThreshold(score) ==
    ~(score.sq > 0 /\ (score.dot <= 0 \/ 100 * score.dot * score.dot <= 9 * score.sq))

\* d.score > 0.3, false for NaN.
AboveThreshold(score) ==
    score.sq > 0 /\ score.dot > 0 /\ 100 * score.dot * score.dot > 9 * score.sq

\* x > y for two scores that are numbers.
ScoreGreater(x, y) ==
    IF x.dot > 0 /\ y.dot <= 0 THEN TRUE
    ELSE IF x.dot <= 0 /\ y.dot > 0 THEN FALSE
    ELSE IF x.dot > 0 THEN x.dot * x.dot * y.sq > y.dot * y.dot * x.sq
    ELSE x.dot * x.dot * y.sq < y.dot * y.dot * x.sq

\* .sort((a, b) => b.score - a.score): Array.prototype.sort is stable.
RECURSIVE InsertByScore(_, _)
InsertByScore(x, sorted) ==
    IF sorted = <<>> THEN <<x>>
    ELSE IF ScoreGreater(Head(sorted).score, x.score)
         THEN <<Head(sorted)>> \o InsertByScore(x, Tail(sorted))
         ELSE <<x>> \o sorted

\* Mutant of SortByScoreDesc: the results are left in row order.
SortKeepsRowOrder(rs) == rs

RECURSIVE SortByScoreDesc(_)
SortByScoreDesc(rs) ==
    IF rs = <<>> THEN <<>> ELSE InsertByScore(Head(rs), SortByScoreDesc(Tail(rs)))

\* searchDecisions(projectId, query, 5)
SemanticLimit == 5

SemanticResult(row, queryEmbedding) ==
    [id |-> row.id, createdAt |-> row.createdAt,
     score |-> cosineSimilarity(queryEmbedding, row.embedding)]

\* Mutant of RankDecisions: the list is cut to the limit before it is sorted.
RankDecisionsCutFirst(D, pid, queryEmbedding, limit) ==
    LET candidates == SelectSeq(D, LAMBDA row : row.projectId = pid /\ row.embedded)
        scored == [k \in 1..Len(candidates) |-> SemanticResult(candidates[k], queryEmbedding)]
    IN SortByScoreDesc(Limit(SelectSeq(scored, LAMBDA d : AboveThreshold(d.score)), limit))

\* searchDecisions after the embedding call (lines 118-145): the rows of
\* the project that have an embedding, scored, filtered, sorted, cut.
RankDecisions(D, pid, queryEmbedding, limit) ==
    LET candidates == SelectSeq(D, LAMBDA row : row.projectId = pid /\ row.embedded)
        scored == [k \in 1..Len(candidates) |-> SemanticResult(candidates[k], queryEmbedding)]
    IN Limit(SortByScoreDesc(SelectSeq(scored, LAMBDA d : AboveThreshold(d.score))), limit)

\* Mutant of SearchFailed: the catch falls back to the text search.
SearchFailedFallsBack(s) ==
    LET rows == TextSearch(decisions, s.body.projectId, s.body.query, TRUE) IN
    [NoSearchResponse EXCEPT !.status = 200, !.mode = "text",
                             !.results = [k \in 1..Len(rows) |-> TextResult(rows[k])]]

\* The catch of the handler: res.status(500).json({ error: 'Search failed: ...' }).
SearchFailed(s) ==
    [NoSearchResponse EXCEPT !.status = 500, !.error = "Search failed"]

InitSearch ==
    /\ decisions \in DecisionTables
    /\ configured \in BOOLEAN
    /\ sr = IdleSearch
    /\ nt = [title |-> <<>>, norm |-> <<>>, done |-> FALSE]
    /\ NoTasksState
    /\ NoOtherState

\* Mutant of QueryMissing: the query is not trimmed before the test.
QueryMissingNoTrim(query) == query = <<>>

\* if (!query || !query.trim())
QueryMissing(query) == query = <<>> \/ trim(query) = <<>>

\* Lines 14-56 and searchDecisions up to its await: validation, the text
\* fallback when no API key is set, else the embedding call is sent.
SearchBegin ==
    /\ sr.pc = "idle"
    /\ \E body \in SearchBodies, tiesAscending \in BOOLEAN :
        IF body.projectId = 0
        THEN sr' = [sr EXCEPT !.pc = "done", !.body = body,
                       !.resp = [NoSearchResponse EXCEPT !.status = 400,
                                     !.error = "Project ID is required"]]
        ELSE IF QueryMissing(body.query)
        THEN sr' = [sr EXCEPT !.pc = "done", !.body = body,
                       !.resp = [NoSearchResponse EXCEPT !.status = 400,
                                     !.error = "Search query is required"]]
        ELSE IF ~configured
        THEN LET rows == TextSearch(decisions, body.projectId, body.query, tiesAscending) IN
             sr' = [sr EXCEPT !.pc = "done", !.body = body,
                       !.resp = [NoSearchResponse EXCEPT !.status = 200, !.mode = "text",
                                     !.results = [k \in 1..Len(rows) |-> TextResult(rows[k])]]]
        ELSE sr' = [sr EXCEPT !.pc = "embedding", !.body = body]
    /\ UNCHANGED <<nt, tasks, nextTaskId, running, st, decisions, configured,
                   otherVars>>

\* The semantic answer (lines 64-79).
SemanticResponse(results, answer) ==
    [NoSearchResponse EXCEPT !.status = 200, !.mode = "semantic",
                             !.results = results, !.answer = answer]

\* The embedding call settles.  Rejected: the catch answers.  Resolved: the
\* decisions are ranked; with results the chat call is sent (generateAnswer
\* up to its await), without results the handler answers.
EmbeddingSettles ==
    /\ sr.pc = "embedding"
    /\ \/ sr' = [sr EXCEPT !.pc = "done", !.err = "embedding", !.resp = SearchFailed(sr)]
       \/ \E queryEmbedding \in QueryVectors :
            LET results == RankDecisions(decisions, sr.body.projectId, queryEmbedding,
                                         SemanticLimit)
            IN IF results # <<>>
               THEN sr' = [sr EXCEPT !.pc = "answer", !.queryEmbedding = queryEmbedding,
                                     !.results = results]
               ELSE sr' = [sr EXCEPT !.pc = "done", !.queryEmbedding = queryEmbedding,
                                     !.results = results,
                                     !.resp = SemanticResponse(results, "null")]
    /\ UNCHANGED <<nt, tasks, nextTaskId, running, st, decisions, configured,
                   otherVars>>

\* The chat call settles.  Rejected: the exception leaves generateAnswer and
\* the catch of the handler answers.  Resolved: the handler answers with the
\* content, or with null when there is none.
AnswerSettles ==
    /\ sr.pc = "answer"
    /\ \/ sr' = [sr EXCEPT !.pc = "done", !.err = "answer", !.resp = SearchFailed(sr)]
       \/ \E answer \in Answers :
            sr' = [sr EXCEPT !.pc = "done", !.resp = SemanticResponse(sr.results, answer)]
    /\ UNCHANGED <<nt, tasks, nextTaskId, running, st, decisions, configured,
                   otherVars>>

NextSearch == SearchBegin \/ EmbeddingSettles \/ AnswerSettles

SpecSearch == InitSearch /\ [][NextSearch]_vars

----------------------------------------------------------------------------
(* Properties of the search handler.                                       *)

\* C2: in semantic mode, when the ranked list is not empty and the
\* answer-generation call fails, the search still succeeds: it returns the
\* ranked results with answer = null instead of an error.
C2_AnswerFailureKeepsResults ==
    (sr.pc = "done" /\ sr.err = "answer") =>
        /\ sr.resp.status = 200
        /\ sr.resp.results = sr.results
        /\ sr.resp.answer = "null"

\* text contains query as a substring, character for character.
HasSubstring(text, query) ==
    /\ text # NULL
    /\ \E i \in 0..(Len(text) - Len(query)) :
           \A j \in 1..Len(query) : text[i + j] = query[j]

\* text matches the query somewhere the way LIKE compares: letters without
\* regard to case, _ in the query standing for any one character.  (For a
\* query without %.)
HasLikeSubstring(text, query) ==
    /\ text # NULL
    /\ \E i \in 0..(Len(text) - Len(query)) :
           \A j \in 1..Len(query) :
               \/ query[j] = "_"
               \/ toLowerCase(<<text[i + j]>>) = toLowerCase(<<query[j]>>)

ResultIds(results) == {results[k].id : k \in 1..Len(results)}

NewestFirst(results) ==
    \A k \in 1..(Len(results) - 1) : results[k].createdAt >= results[k + 1].createdAt

\* C6 as stated: without a configured provider a search returns all decisions
\* of the project one of whose four text fields contains the query as a
\* substring, each with score 1 and no answer, newest first.
C6_TextReturnsAllMatches ==
    (sr.pc = "done" /\ sr.resp.mode = "text") =>
        /\ \A k \in 1..Len(decisions) :
               (/\ decisions[k].projectId = sr.body.projectId
                /\ \/ HasSubstring(decisions[k].title, sr.body.query)
                   \/ HasSubstring(decisions[k].description, sr.body.query)
                   \/ HasSubstring(decisions[k].reason, sr.body.query)
                   \/ HasSubstring(decisions[k].consequences, sr.body.query))
               => decisions[k].id \in ResultIds(sr.resp.results)
        /\ \A k \in 1..Len(sr.resp.results) : sr.resp.results[k].score = FixedScore
        /\ sr.resp.answer = "null"
        /\ NewestFirst(sr.resp.results)

\* C6 as amended: without a configured provider a search returns the 10
\* newest (by createdAt) of the decisions of the project one of whose four
\* text fields matches the query somewhere under LIKE (letters compared
\* without regard to case, _ standing for any one character), all of them
\* when there are at most 10, each once, with score 1 and no answer, in
\* non-increasing createdAt.
C6_TextReturnsNewestTenLikeMatches ==
    (sr.pc = "done" /\ sr.resp.mode = "text") =>
        LET results == sr.resp.results
            hits == {k \in 1..Len(decisions) :
                        /\ decisions[k].projectId = sr.body.projectId
                        /\ \/ HasLikeSubstring(decisions[k].title, sr.body.query)
                           \/ HasLikeSubstring(decisions[k].description, sr.body.query)
                           \/ HasLikeSubstring(decisions[k].reason, sr.body.query)
                           \/ HasLikeSubstring(decisions[k].consequences, sr.body.query)}
            hitIds == {decisions[k].id : k \in hits}
        IN
        /\ ~configured
        /\ sr.resp.status = 200
        /\ sr.resp.answer = "null"
        /\ \A k \in 1..Len(results) : results[k].score = FixedScore
        /\ ResultIds(results) \subseteq hitIds
        /\ Cardinality(ResultIds(results)) = Len(results)
        /\ Len(results) = IF Cardinality(hits) < 10 THEN Cardinality(hits) ELSE 10
        /\ NewestFirst(results)
        /\ \A k \in hits :
               decisions[k].id \notin ResultIds(results) =>
                   \A j \in 1..Len(results) : results[j].createdAt >= decisions[k].createdAt

\* Eleven decisions match, ten are returned; a match is by case or by _.
C6_Witness ==
    /\ sr.pc = "done"
    /\ sr.resp.mode = "text"
    /\ Len(sr.resp.results) = 10
    /\ Cardinality({k \in 1..Len(decisions) :
           TextMatches(decisions[k], sr.body.projectId, sr.body.query)}) = 11
    /\ \E k \in 1..Len(decisions) :
           /\ decisions[k].id \in ResultIds(sr.resp.results)
           /\ ~HasSubstring(decisions[k].title, sr.body.query)
           /\ ~HasSubstring(decisions[k].description, sr.body.query)

\* C9: when the embedding call fails during a semantic search (provider
\* configured), the request ends in the error of the provider failure and
\* returns no results; the text match is used only when the provider is not
\* configured.
C9_EmbeddingFailureSurfaced ==
    /\ (sr.pc = "done" /\ sr.err = "embedding") =>
           /\ configured
           /\ sr.resp.status = 500
           /\ sr.resp.error = "Search failed"
           /\ sr.resp.results = <<>>
           /\ sr.resp.mode = "none"
    /\ (sr.pc = "done" /\ sr.resp.mode = "text") => ~configured

\* The embedding call failed for a query that the text match would answer.
C9_Witness ==
    /\ sr.pc = "done"
    /\ sr.err = "embedding"
    /\ \E k \in 1..Len(decisions) :
           TextMatches(decisions[k], sr.body.projectId, sr.body.query)

\* The ranker has returned: sr.results is the list searchDecisions gave for
\* the query embedding sr.queryEmbedding.
RankerReturned == sr.pc \in {"answer", "done"} /\ sr.queryEmbedding # <<>>

\* The similarity of decision row k to the query.
Similarity(k) == cosineSimilarity(sr.queryEmbedding, decisions[k].embedding)

\* A score, the number dot / sqrt(sq), is greater than 0.3; NaN (sq = 0) is
\* not.
GreaterThanThreeTenths(score) ==
    score.sq > 0 /\ score.dot > 0 /\ 100 * score.dot * score.dot > 9 * score.sq

\* x >= y for two scores that are positive numbers.
PositiveScoreAtLeast(x, y) == x.dot * x.dot * y.sq >= y.dot * y.dot * x.sq

\* The rows of the searched project that have an embedding and whose
\* similarity to the query is greater than 0.3.
Passing ==
    {k \in 1..Len(decisions) :
        /\ decisions[k].projectId = sr.body.projectId
        /\ decisions[k].embedded
        /\ GreaterThanThreeTenths(Similarity(k))}

\* C16: in non-fallback mode the ranker never returns a result whose score is
\* less than or equal to 0.3; every result carries the similarity of its
\* decision, which is greater than 0.3, and no result is a decision whose
\* stored vector has another length than the query vector or norm zero.
C16_NoResultAtOrBelowThreshold ==
    RankerReturned =>
        \A j \in 1..Len(sr.results) :
            LET k == sr.results[j].id IN
            /\ sr.results[j].score = Similarity(k)
            /\ GreaterThanThreeTenths(sr.results[j].score)
            /\ Len(decisions[k].embedding) = Len(sr.queryEmbedding)
            /\ DotProduct(decisions[k].embedding, decisions[k].embedding) # 0

\* The ranker returned results for a project that also holds a decision with
\* a zero vector, one with a vector of another length, and one whose
\* similarity is a number not greater than 0.3.
C16_Witness ==
    /\ RankerReturned
    /\ sr.results # <<>>
    /\ \E k1, k2, k3 \in 1..Len(decisions) :
        /\ \A k \in {k1, k2, k3} :
               decisions[k].projectId = sr.body.projectId /\ decisions[k].embedded
        /\ Len(decisions[k1].embedding) = Len(sr.queryEmbedding)
        /\ DotProduct(decisions[k1].embedding, decisions[k1].embedding) = 0
        /\ Len(decisions[k2].embedding) # Len(sr.queryEmbedding)
        /\ Len(decisions[k3].embedding) = Len(sr.queryEmbedding)
        /\ Similarity(k3).sq > 0
        /\ ~GreaterThanThreeTenths(Similarity(k3))

\* C17: the ranker never returns more than K = 5 results, however many
\* decisions of the project pass the threshold, and the results are those
\* with the highest scores: each result is a passing decision, returned
\* once; all passing decisions are returned when there are at most 5; and no
\* passing decision left out has a higher score than a returned one.
C17_AtMostKHighest ==
    RankerReturned =>
        /\ Len(sr.results) <= 5
        /\ Len(sr.results) = IF Cardinality(Passing) < 5 THEN Cardinality(Passing) ELSE 5
        /\ ResultIds(sr.results) \subseteq Passing
        /\ Cardinality(ResultIds(sr.results)) = Len(sr.results)
        /\ \A k \in Passing \ ResultIds(sr.results) :
               \A j \in 1..Len(sr.results) :
                   PositiveScoreAtLeast(sr.results[j].score, Similarity(k))

\* More than five decisions pass, and one with a lower score that is left out
\* comes, in row order, before five that are returned.
C17_Witness ==
    /\ RankerReturned
    /\ Cardinality(Passing) > 5
    /\ Len(sr.results) = 5
    /\ \E k \in Passing \ ResultIds(sr.results) :
           \A j \in 1..5 :
               /\ k < sr.results[j].id
               /\ ~PositiveScoreAtLeast(Similarity(k), sr.results[j].score)

\* C18: the ranker's result list is sorted non-increasing by score: of two
\* adjacent results the earlier one's score is greater than or equal to the
\* later one's.
C18_SortedByScore ==
    RankerReturned =>
        \A j \in 1..(Len(sr.results) - 1) :
            PositiveScoreAtLeast(sr.results[j].score, sr.results[j + 1].score)

\* Two results with different scores come in the opposite of their row order.
C18_Witness ==
    /\ RankerReturned
    /\ \E j \in 1..(Len(sr.results) - 1) :
           /\ sr.results[j].id > sr.results[j + 1].id
           /\ ~PositiveScoreAtLeast(sr.results[j + 1].score, sr.results[j].score)

\* A query that is missing, empty or made of whitespace only.
Blank(query) == \A k \in 1..Len(query) : query[k] \in Whitespace

\* C19: a search request with a missing, empty or whitespace-only query is
\* rejected with InvalidInput (400) before any provider call or database
\* read: the step that takes the request answers it, with no result and in
\* neither search mode, and no embedding call is sent.
C19_BlankQueryRejected ==
    [][(sr.pc = "idle" /\ sr'.pc # "idle" /\ Blank(sr'.body.query)) =>
          /\ sr'.pc = "done"
          /\ sr'.resp.status = 400
          /\ sr'.resp.mode = "none"
          /\ sr'.resp.results = <<>>
          /\ sr'.results = <<>>
          /\ sr'.queryEmbedding = <<>>
    ]_vars

\* A whitespace-only query for a project with decisions was rejected, with
\* and without a configured provider.
C19_Witness ==
    /\ sr.pc = "done"
    /\ sr.resp.status = 400
    /\ sr.body.query # <<>>
    /\ Blank(sr.body.query)
    /\ configured
    /\ \E k \in 1..Len(decisions) : decisions[k].projectId = sr.body.projectId

----------------------------------------------------------------------------
(* SpecCosine: cosineSimilarity on every pair of vectors of at most MaxDim *)
(* components drawn from Components.                                       *)

MaxDim == 3

Components == {-1, 0, 2}

Vectors == UNION {[1..k -> Components] : k \in 0..MaxDim}

NoScore == [dot |-> 0, sq |-> 0]

InitCosine ==
    /\ cs \in [a : Vectors, b : Vectors, ab : {NoScore}, ba : {NoScore}, done : {FALSE}]
    /\ nt = [title |-> <<>>, norm |-> <<>>, done |-> FALSE]
    /\ NoTasksState
    /\ NoSearchState
    /\ NoEmbedState
    /\ NoDecisionState
    /\ NoTranscribeState
    /\ NoTaskRouteState

\* cosineSimilarity(a, b) and cosineSimilarity(b, a) are computed.
Cosine ==
    /\ ~cs.done
    /\ cs' = [cs EXCEPT !.ab = cosineSimilarity(cs.a, cs.b),
                        !.ba = cosineSimilarity(cs.b, cs.a),
                        !.done = TRUE]
    /\ UNCHANGED <<tk, nt, tasks, nextTaskId, running, st, decisions, configured, sr,
                   er, links, dr, recordings, tr>>

NextCosine == Cosine

SpecCosine == InitCosine /\ [][NextCosine]_vars

\* Two scores are the same value: both NaN, or the same number.
SameScore(x, y) ==
    IF x.sq = 0 \/ y.sq = 0 THEN x.sq = 0 /\ y.sq = 0
    ELSE /\ (x.dot > 0) = (y.dot > 0)
         /\ (x.dot < 0) = (y.dot < 0)
         /\ x.dot * x.dot * y.sq = y.dot * y.dot * x.sq

\* C23: cosine similarity is symmetric: for every pair of vectors a and b,
\* cosineSimilarity(a, b) equals cosineSimilarity(b, a), also for vectors of
\* different lengths, for which both are 0.
C23_CosineSymmetric ==
    cs.done =>
        /\ SameScore(cs.ab, cs.ba)
        /\ Len(cs.a) # Len(cs.b) => cs.ab.dot = 0 /\ cs.ab.sq # 0 /\ cs.ba.dot = 0

\* The similarity of two different vectors of one length, neither of norm
\* zero, that are not orthogonal.
C23_Witness ==
    /\ cs.done
    /\ cs.a # cs.b
    /\ Len(cs.a) = Len(cs.b)
    /\ cs.ab.sq > 0
    /\ cs.ab.dot < 0
    /\ DotProduct(cs.a, cs.a) # DotProduct(cs.b, cs.b)

----------------------------------------------------------------------------
(* SpecEmbed: POST /search/embed/:decisionId.  The handler is an async     *)
(* function that awaits embedDecision, which awaits the embedding call:    *)
(* requests for one decision can overlap at that await.                    *)

MaxEmbedDecisions == 2
MaxEmbedRequests == 2

EmbedRequests == 1..MaxEmbedRequests

\* The decisions of the tables: those of project 1 with no embedding or one
\* of the length the provider gives.
EmbedKinds ==
    {kind \in DecisionKinds : kind.projectId = 1 /\ Len(kind.embedding) \in {0, 2}}

EmbedTables ==
    {DecisionTable(p, n, 1) :
        p \in UNION {[1..k -> EmbedKinds] : k \in 1..2},
        n \in 0..MaxEmbedDecisions}

\* What the embedding call can resolve to.
ProviderVectors == {<<0, 1>>, <<2, 2>>}

\* err is what embedDecision caught: "provider" for a rejected embedding
\* call, "db" for a failed UPDATE; stored tells whether the request stored
\* an embedding.
IdleEmbed ==
    [pc |-> "idle", decisionId |-> 0, err |-> "none", stored |-> FALSE, status |-> 0]

\* [title, description, reason, consequences].filter(Boolean).join('\n\n')
RECURSIVE JoinTexts(_)
JoinTexts(texts) ==
    IF texts = <<>> THEN <<>>
    ELSE IF Len(texts) = 1 THEN Head(texts)
    ELSE Head(texts) \o <<"\n", "\n">> \o JoinTexts(Tail(texts))

EmbedText(decision) ==
    JoinTexts(SelectSeq(<<decision.title, decision.description, decision.reason,
                          decision.consequences>>,
                        LAMBDA t : t # NULL /\ t # <<>>))

\* SELECT * FROM decisions WHERE id = ?
HasDecision(D, id) == \E k \in 1..Len(D) : D[k].id = id
GetDecision(D, id) == D[CHOOSE k \in 1..Len(D) : D[k].id = id]

\* storeEmbedding: UPDATE decisions SET embedding = ? WHERE id = ?
StoreEmbedding(D, id, embedding) ==
    [k \in 1..Len(D) |->
        IF D[k].id = id THEN [D[k] EXCEPT !.embedded = TRUE, !.embedding = embedding]
        ELSE D[k]]

\* Mutant of StoreFailed: the failed UPDATE leaves the start of the vector.
StoreFailedHalfWritten(D, id, embedding) ==
    [k \in 1..Len(D) |->
        IF D[k].id = id
        THEN [D[k] EXCEPT !.embedded = TRUE, !.embedding = SubSeq(embedding, 1, 1)]
        ELSE D[k]]

\* The table after the UPDATE of storeEmbedding threw: a statement that
\* fails changes nothing.
StoreFailed(D, id, embedding) == D

InitEmbed ==
    /\ decisions \in EmbedTables
    /\ configured \in BOOLEAN
    /\ er = [q \in EmbedRequests |-> IdleEmbed]
    /\ sr = <<>>
    /\ nt = [title |-> <<>>, norm |-> <<>>, done |-> FALSE]
    /\ NoTasksState
    /\ NoCosineState
    /\ NoDecisionState
    /\ NoTranscribeState
    /\ NoTaskRouteState

\* part_006 lines 118-130 and embedDecision up to its await: 503 without an
\* API key, 404 without the decision, success at once when the decision has
\* no text, else the embedding call is sent.
EmbedBegin(q) ==
    /\ er[q].pc = "idle"
    /\ \E id \in 1..(MaxEmbedDecisions + 1) :
        IF ~configured
        THEN er' = [er EXCEPT ![q] = [@ EXCEPT !.pc = "done", !.decisionId = id,
                                                !.status = 503]]
        ELSE IF ~HasDecision(decisions, id)
        THEN er' = [er EXCEPT ![q] = [@ EXCEPT !.pc = "done", !.decisionId = id,
                                                !.status = 404]]
        ELSE IF trim(EmbedText(GetDecision(decisions, id))) = <<>>
        THEN er' = [er EXCEPT ![q] = [@ EXCEPT !.pc = "done", !.decisionId = id,
                                                !.status = 200]]
        ELSE er' = [er EXCEPT ![q] = [@ EXCEPT !.pc = "embedding", !.decisionId = id]]
    /\ UNCHANGED <<tk, nt, tasks, nextTaskId, running, st, decisions, configured, sr,
                   cs, links, dr, recordings, tr>>

\* The embedding call settles (embedDecision lines 92-99, part_006 lines
\* 130-131).  Rejected: embedDecision catches, logs and returns null.
\* Resolved: storeEmbedding runs its UPDATE, whose exception embedDecision
\* catches as well.  In each case the handler answers success.
EmbedSettles(q) ==
    /\ er[q].pc = "embedding"
    /\ \/ /\ er' = [er EXCEPT ![q] = [@ EXCEPT !.pc = "done", !.err = "provider",
                                               !.status = 200]]
          /\ UNCHANGED decisions
       \/ \E embedding \in ProviderVectors, dbOk \in BOOLEAN :
            IF dbOk
            THEN /\ decisions' = StoreEmbedding(decisions, er[q].decisionId, embedding)
                 /\ er' = [er EXCEPT ![q] = [@ EXCEPT !.pc = "done", !.stored = TRUE,
                                                      !.status = 200]]
            ELSE /\ decisions' = StoreFailed(decisions, er[q].decisionId, embedding)
                 /\ er' = [er EXCEPT ![q] = [@ EXCEPT !.pc = "done", !.err = "db",
                                                      !.status = 200]]
    /\ UNCHANGED <<tk, nt, tasks, nextTaskId, running, st, configured, sr,
                   cs, links, dr, recordings, tr>>

NextEmbed == \E q \in EmbedRequests : EmbedBegin(q) \/ EmbedSettles(q)

SpecEmbed == InitEmbed /\ [][NextEmbed]_vars

\* C21: a decision's stored embedding is never partially written.  In every
\* step each decision row either stays as it is or gets, as its embedding,
\* a whole vector that the provider returned, its other columns staying; and
\* a step in which the provider call or the UPDATE fails leaves every row,
\* with its embedding or its absence, as it was.
C21_EmbeddingWholeOrUntouched ==
    [][/\ Len(decisions') = Len(decisions)
       /\ \A k \in 1..Len(decisions) :
            \/ decisions'[k] = decisions[k]
            \/ /\ decisions'[k] = [decisions[k] EXCEPT
                                      !.embedded = TRUE,
                                      !.embedding = decisions'[k].embedding]
               /\ decisions'[k].embedding \in ProviderVectors
       /\ \A q \in EmbedRequests :
            (er[q].pc = "embedding" /\ er'[q].err # "none") => decisions' = decisions
    ]_vars

\* A request stored a vector for a decision, and a later request for the
\* same decision, whose provider call failed, left it.
C21_Witness ==
    \E q1, q2 \in EmbedRequests :
        /\ er[q1].pc = "done" /\ er[q1].stored
        /\ er[q2].pc = "done" /\ er[q2].err = "provider"
        /\ er[q1].decisionId = er[q2].decisionId
        /\ GetDecision(decisions, er[q1].decisionId).embedding \in ProviderVectors

\* C28: POST /embed/:decisionId answers success only if the request stored an
\* embedding for the decision; when the provider call fails it answers with
\* an error.
C28_SuccessOnlyIfStored ==
    \A q \in EmbedRequests :
        (er[q].pc = "done" /\ er[q].status = 200) => (er[q].stored /\ er[q].err = "none")

----------------------------------------------------------------------------
(* SpecDecision: POST /decisions.  The handler is synchronous; the decision *)
(* and its links are inserted inside db.transaction, which commits when its *)
(* function returns and rolls back and rethrows when it throws.             *)

MaxDecisionRequests == 2
MaxLinks == 2

\* CHECK (type IN ('commit', 'pr', 'task', 'file', 'note'))
LinkTypes == {"commit", "pr", "task", "file", "note"}

\* The links of a body: "" is a missing type, <<>> a missing reference,
\* "bogus" a type the table refuses.
LinkInputs ==
    { [type |-> "commit", reference |-> <<"r">>],
      [type |-> "bogus", reference |-> <<"r">>],
      [type |-> "", reference |-> <<"r">>],
      [type |-> "note", reference |-> <<>>] }

DecisionBodies ==
    [projectId : {0, 1, 3},
     title : {<<" ">>, <<"a", " ">>},
     description : {NULL, <<" ">>},
     links : UNION {[1..n -> LinkInputs] : n \in 0..MaxLinks}]

\* description?.trim() || null
TrimOrNull(s) == IF s = NULL \/ trim(s) = <<>> THEN NULL ELSE trim(s)

\* INSERT INTO decisions (projectId, title, description, reason, consequences)
InsertDecision(D, id, body) ==
    Append(D, [id |-> id, projectId |-> body.projectId, title |-> trim(body.title),
               description |-> TrimOrNull(body.description), reason |-> NULL,
               consequences |-> NULL, createdAt |-> 0,
               embedded |-> FALSE, embedding |-> <<>>])

\* INSERT INTO links (decisionId, type, reference)
InsertLink(L, decisionId, link) ==
    Append(L, [id |-> Len(L) + 1, decisionId |-> decisionId, type |-> link.type,
               reference |-> link.reference])

\* The loop over links: a link without type or reference is passed over; an
\* insert throws when the type fails the CHECK or when the database fails,
\* which is at the failIn-th insert (0: never).
RECURSIVE InsertLinks(_, _, _, _)
InsertLinks(L, decisionId, linksIn, failIn) ==
    IF linksIn = <<>> THEN [threw |-> FALSE, links |-> L]
    ELSE LET link == Head(linksIn) IN
         IF link.type # "" /\ link.reference # <<>>
         THEN IF link.type \notin LinkTypes \/ failIn = 1
              THEN [threw |-> TRUE, links |-> L]
              ELSE InsertLinks(InsertLink(L, decisionId, link), decisionId, Tail(linksIn),
                               IF failIn = 0 THEN 0 ELSE failIn - 1)
         ELSE InsertLinks(L, decisionId, Tail(linksIn), failIn)

\* Mutant of Rollback: what the function wrote before it threw stays.
NoRollback(D0, L0, D, L) == [decisions |-> D, links |-> L]

\* db.transaction on an exception: ROLLBACK to the tables before BEGIN.
Rollback(D0, L0, D, L) == [decisions |-> D0, links |-> L0]

\* The transaction function run on tables D0 and L0: failAt = 1 is a database
\* failure of the decision's insert, failAt = k + 1 one of the k-th link
\* insert.
Transaction(D0, L0, body, failAt) ==
    LET decisionId == Len(D0) + 1
        D == InsertDecision(D0, decisionId, body)
        after == InsertLinks(L0, decisionId, body.links,
                             IF failAt = 0 THEN 0 ELSE failAt - 1)
    IN  IF failAt = 1 \/ ~ForeignKeyHolds(body.projectId)
        THEN [threw |-> TRUE, decisionId |-> 0] @@ Rollback(D0, L0, D0, L0)
        ELSE IF after.threw
        THEN [threw |-> TRUE, decisionId |-> 0] @@ Rollback(D0, L0, D, after.links)
        ELSE [threw |-> FALSE, decisionId |-> decisionId, decisions |-> D,
              links |-> after.links]

NoDecisionBody ==
    [projectId |-> 0, title |-> <<>>, description |-> NULL, links |-> <<>>]

InitDecision ==
    /\ decisions = <<>>
    /\ links = <<>>
    /\ dr = [handled |-> 0, body |-> NoDecisionBody, status |-> 0, decisionId |-> 0]
    /\ configured = FALSE
    /\ sr = <<>>
    /\ nt = [title |-> <<>>, norm |-> <<>>, done |-> FALSE]
    /\ NoTasksState
    /\ NoCosineState
    /\ NoEmbedState
    /\ NoTranscribeState
    /\ NoTaskRouteState

\* router.post('/') of decisions.js, lines 34-87, the answer of Express to
\* the exception of the transaction (500) included.
CreateDecision ==
    /\ dr.handled < MaxDecisionRequests
    /\ \E body \in DecisionBodies, failAt \in 0..(MaxLinks + 1) :
        LET answer(status, id) ==
                [handled |-> dr.handled + 1, body |-> body, status |-> status,
                 decisionId |-> id]
            txn == Transaction(decisions, links, body, failAt)
        IN  IF body.projectId = 0 \/ trim(body.title) = <<>>
            THEN dr' = answer(400, 0) /\ UNCHANGED <<decisions, links>>
            ELSE IF body.projectId \notin Projects
            THEN dr' = answer(404, 0) /\ UNCHANGED <<decisions, links>>
            ELSE /\ decisions' = txn.decisions
                 /\ links' = txn.links
                 /\ dr' = IF txn.threw THEN answer(500, 0)
                                       ELSE answer(201, txn.decisionId)
    /\ UNCHANGED <<tk, nt, tasks, nextTaskId, running, st, configured, sr, cs, er,
                   recordings, tr>>

NextDecision == CreateDecision

SpecDecision == InitDecision /\ [][NextDecision]_vars

\* The links of a body that have a type and a reference.
AcceptedLinks(body) ==
    SelectSeq(body.links, LAMBDA link : link.type # "" /\ link.reference # <<>>)

\* C29: creating a decision with links is atomic.  Every request either adds
\* the decision and all its accepted links, in their order, and is answered
\* 201, or leaves both tables as they were and is answered with an error;
\* a request with an accepted link of a type the table refuses is of the
\* second kind.
C29_DecisionWithLinksAtomic ==
    [][dr'.handled = dr.handled + 1 =>
        LET acc == AcceptedLinks(dr'.body)
            id == dr'.decisionId
        IN  /\ \/ /\ dr'.status = 201
                  /\ Len(decisions') = Len(decisions) + 1
                  /\ SubSeq(decisions', 1, Len(decisions)) = decisions
                  /\ decisions'[Len(decisions')].id = id
                  /\ Len(links') = Len(links) + Len(acc)
                  /\ SubSeq(links', 1, Len(links)) = links
                  /\ \A j \in 1..Len(acc) :
                        /\ links'[Len(links) + j].decisionId = id
                        /\ links'[Len(links) + j].type = acc[j].type
                        /\ links'[Len(links) + j].reference = acc[j].reference
               \/ /\ dr'.status # 201
                  /\ decisions' = decisions
                  /\ links' = links
            /\ (\E j \in 1..Len(acc) : acc[j].type \notin LinkTypes) => dr'.status # 201
    ]_vars

\* A decision was created with a link, and the next request, whose second
\* link has a refused type after a good first one, left no trace.
C29_Witness ==
    /\ dr.handled = 2
    /\ dr.status = 500
    /\ Len(dr.body.links) = 2
    /\ dr.body.links[1].type = "commit"
    /\ dr.body.links[2].type = "bogus"
    /\ Len(decisions) = 1
    /\ Len(links) = 1

----------------------------------------------------------------------------
(* SpecTranscribe: POST /recordings/:id/transcribe.  The handler is async: *)
(* it yields at the transcription call and at the extraction call, and     *)
(* runs what follows each of them without yielding.  Its statements run in *)
(* autocommit.  A database failure is taken to hit one statement of the    *)
(* try block; the UPDATE of the catch block is taken to succeed.           *)

MaxRecordings == 1
MaxTranscribeRequests == 2
MaxExtracted == 2
ExtractTitleLimit == 200

TranscribeRequests == 1..MaxTranscribeRequests

\* CHECK (status IN ('recording', 'processing', 'completed', 'failed'));
\* upload stores 'processing', transcribe the other two.
RecordingStatuses == {"processing", "completed", "failed"}

\* A row of recordings; audio tells whether the file named by filename
\* exists in the uploads directory.
RecordingRows(id) ==
    [id : {id}, projectId : {1}, status : RecordingStatuses, transcript : {NULL},
     audio : BOOLEAN]

RecordingTables ==
    UNION {{T \in [1..n -> UNION {RecordingRows(id) : id \in 1..n}] :
                \A k \in 1..n : T[k].id = k} : n \in 1..MaxRecordings}

Transcripts == {<<"x">>}

\* An element of the array the model answers with: a falsy or non-string
\* title is titleIsString FALSE.
RawTasks ==
    { [titleIsString |-> TRUE, title |-> <<"t">>, priority |-> "high"],
      [titleIsString |-> TRUE, title |-> <<"u">>, priority |-> "urgent"],
      [titleIsString |-> FALSE, title |-> <<>>, priority |-> "low"] }

\* What JSON.parse of the answer gives: an array, or no array (a parse
\* error or another value).
RawAnswers ==
    [isArray : {TRUE}, tasks : UNION {[1..n -> RawTasks] : n \in 0..MaxExtracted}]
    \cup [isArray : {FALSE}, tasks : {<<>>}]

slice(s, n) == IF Len(s) <= n THEN s ELSE SubSeq(s, 1, n)

RECURSIVE SanitizeTasks(_)
SanitizeTasks(raw) ==
    IF raw = <<>> THEN <<>>
    ELSE LET t == Head(raw) IN
         IF t.titleIsString /\ t.title # <<>>
         THEN <<[title |-> slice(t.title, ExtractTitleLimit),
                 priority |-> IF t.priority \in {"low", "medium", "high"}
                              THEN t.priority ELSE "medium"]>>
              \o SanitizeTasks(Tail(raw))
         ELSE SanitizeTasks(Tail(raw))

\* extractTasksFromTranscript after the chat call resolved.
ExtractedTasks(answer) == IF answer.isArray THEN SanitizeTasks(answer.tasks) ELSE <<>>

HasRecording(R, id) == id \in 1..Len(R)

\* UPDATE recordings SET status = ? WHERE id = ?
SetRecordingStatus(R, id, status) ==
    [k \in 1..Len(R) |-> IF R[k].id = id THEN [R[k] EXCEPT !.status = status] ELSE R[k]]

\* UPDATE recordings SET transcript = ?, status = ? WHERE id = ?
SetTranscript(R, id, transcript, status) ==
    [k \in 1..Len(R) |->
        IF R[k].id = id THEN [R[k] EXCEPT !.transcript = transcript, !.status = status]
        ELSE R[k]]

IdleTranscribe ==
    [pc |-> "idle", recordingId |-> 0, projectId |-> 0, transcript |-> NULL,
     inserted |-> 0, status |-> 0]

\* A request that has been answered; inserted is the number of rows of
\* tasks its loop inserted.
TranscribeAnswered(t, status, inserted) ==
    [IdleTranscribe EXCEPT !.pc = "done", !.recordingId = t.recordingId,
                           !.status = status, !.inserted = inserted]

\* The rows inserted by the first n iterations of the loop of lines 142-152;
\* status is the column's default.
RECURSIVE InsertExtracted(_, _, _, _, _)
InsertExtracted(T, id, pid, extracted, n) ==
    IF n = 0 THEN T
    ELSE InsertTask(InsertExtracted(T, id, pid, extracted, n - 1), id + n - 1, pid,
                    extracted[n].title, "pending", extracted[n].priority)

InitTranscribe ==
    /\ recordings \in RecordingTables
    /\ configured \in BOOLEAN
    /\ tr = [q \in TranscribeRequests |-> IdleTranscribe]
    /\ decisions = <<>>
    /\ sr = <<>>
    /\ nt = [title |-> <<>>, norm |-> <<>>, done |-> FALSE]
    /\ NoTasksState
    /\ NoCosineState
    /\ NoEmbedState
    /\ NoDecisionState
    /\ NoTaskRouteState

\* Lines 103-125: up to the call of transcribeAudio.
TranscribeBegin(q) ==
    /\ ThreadFree
    /\ tr[q].pc = "idle"
    /\ \E id \in 1..(MaxRecordings + 1), dbOk \in BOOLEAN :
        LET t == [tr[q] EXCEPT !.recordingId = id] IN
        IF ~HasRecording(recordings, id)
        THEN /\ tr' = [tr EXCEPT ![q] = TranscribeAnswered(t, 404, 0)]
             /\ UNCHANGED recordings
        ELSE IF ~configured
        THEN /\ tr' = [tr EXCEPT ![q] = TranscribeAnswered(t, 503, 0)]
             /\ UNCHANGED recordings
        ELSE IF ~recordings[id].audio
        THEN /\ recordings' = SetRecordingStatus(recordings, id, "failed")
             /\ tr' = [tr EXCEPT ![q] = TranscribeAnswered(t, 404, 0)]
        ELSE IF dbOk
        THEN /\ recordings' = SetRecordingStatus(recordings, id, "processing")
             /\ tr' = [tr EXCEPT ![q] = [t EXCEPT !.pc = "transcribing",
                                                  !.projectId = recordings[id].projectId]]
        ELSE /\ recordings' = SetRecordingStatus(recordings, id, "failed")
             /\ tr' = [tr EXCEPT ![q] = TranscribeAnswered(t, 500, 0)]
    /\ UNCHANGED <<tk, nt, tasks, nextTaskId, running, st, decisions, configured, sr,
                   cs, er, links, dr>>

\* transcribeAudio settles (lines 125-128, 163-166): with the text, and the
\* extraction call is sent, or with an exception.
TranscribeAudioSettles(q) ==
    /\ ThreadFree
    /\ tr[q].pc = "transcribing"
    /\ \/ \E transcript \in Transcripts :
            /\ tr' = [tr EXCEPT ![q] = [@ EXCEPT !.pc = "extracting",
                                                 !.transcript = transcript]]
            /\ UNCHANGED recordings
       \/ /\ recordings' = SetRecordingStatus(recordings, tr[q].recordingId, "failed")
          /\ tr' = [tr EXCEPT ![q] = TranscribeAnswered(tr[q], 500, 0)]
    /\ UNCHANGED <<tk, nt, tasks, nextTaskId, running, st, decisions, configured, sr,
                   cs, er, links, dr>>

\* extractTasksFromTranscript settles (lines 128-166).  Resolved: statement
\* 1 stores the transcript and 'completed', statements 2 .. n + 1 insert the
\* n tasks, statement n + 2 reads the recording; failAt is the statement
\* the database fails at (0: none), and the catch block stores 'failed'.
ExtractSettles(q) ==
    /\ ThreadFree
    /\ tr[q].pc = "extracting"
    /\ \/ \E answer \in RawAnswers, failAt \in 0..(MaxExtracted + 2) :
            LET t == tr[q]
                extractedTasks == ExtractedTasks(answer)
                n == Len(extractedTasks)
                completed == SetTranscript(recordings, t.recordingId, t.transcript,
                                           "completed")
            IN  IF failAt = 0 \/ failAt > n + 2
                THEN /\ recordings' = completed
                     /\ tasks' = InsertExtracted(tasks, nextTaskId, t.projectId,
                                                 extractedTasks, n)
                     /\ nextTaskId' = nextTaskId + n
                     /\ tr' = [tr EXCEPT ![q] = TranscribeAnswered(t, 200, n)]
                ELSE IF failAt = 1
                THEN /\ recordings' = SetRecordingStatus(recordings, t.recordingId, "failed")
                     /\ tr' = [tr EXCEPT ![q] = TranscribeAnswered(t, 500, 0)]
                     /\ UNCHANGED <<tasks, nextTaskId>>
                ELSE /\ recordings' = SetRecordingStatus(completed, t.recordingId, "failed")
                     /\ tasks' = InsertExtracted(tasks, nextTaskId, t.projectId,
                                                 extractedTasks, failAt - 2)
                     /\ nextTaskId' = nextTaskId + failAt - 2
                     /\ tr' = [tr EXCEPT ![q] = TranscribeAnswered(t, 500, failAt - 2)]
       \/ /\ recordings' = SetRecordingStatus(recordings, tr[q].recordingId, "failed")
          /\ tr' = [tr EXCEPT ![q] = TranscribeAnswered(tr[q], 500, 0)]
          /\ UNCHANGED <<tasks, nextTaskId>>
    /\ UNCHANGED <<tk, nt, running, st, decisions, configured, sr, cs, er, links, dr>>

NextTranscribe ==
    \E q \in TranscribeRequests :
        \/ TranscribeBegin(q)
        \/ TranscribeAudioSettles(q)
        \/ ExtractSettles(q)

SpecTranscribe == InitTranscribe /\ [][NextTranscribe]_vars

\* C30: a transcribe request for a recording with its audio file, the
\* provider being configured, ends with the recording completed or failed,
\* and a request that ended by storing failed has inserted no task.  Checked
\* here is the second part: an answered request that failed has inserted
\* nothing.
C30_FailedRequestInsertedNothing ==
    \A q \in TranscribeRequests :
        (tr[q].pc = "done" /\ tr[q].status = 500
            /\ recordings[tr[q].recordingId].status = "failed")
        => tr[q].inserted = 0

----------------------------------------------------------------------------
(* SpecOps: every operation that writes table tasks, interleaved: the      *)
(* routes of tasks.js (synchronous handlers), save-tasks in both modes and *)
(* the import of a transcription.  MaxOpsRows bounds the table; the bodies *)
(* of save-tasks are those of OpsBodies; one save-tasks request and one    *)
(* transcribe request are sent.                                            *)

MaxOpsRows == 2

\* A value of a body that is absent.
Undefined == <<"undefined">>

\* CHECK (status IN (...)) and CHECK (priority IN (...)) of table tasks.
TaskCheckHolds(status, priority) ==
    /\ status \in {"pending", "in_progress", "done"}
    /\ priority \in {"low", "medium", "high"}

CreateBodies ==
    [projectId : {0, 1, 3}, title : {<<" ">>, <<"a">>},
     priority : {"undefined", "high", "urgent"}]

\* "undefined" is an absent status or priority, "" a falsy one that is not
\* undefined.
PatchBodies ==
    [status : {"undefined", "in_progress", "bogus"},
     priority : {"undefined", "low", "bogus"},
     title : {Undefined, <<" ">>}]

BulkBodies ==
    [idsIsArray : {TRUE}, ids : {{}, 1..MaxOpsRows, 2..(MaxOpsRows + 1)},
     status : {"", "done", "bogus"},
     priority : {"undefined", "high", "bogus"}]
    \cup [idsIsArray : {FALSE}, ids : {{}}, status : {"done"}, priority : {"undefined"}]

\* The bodies of save-tasks: one entry, project 1, both modes.
OpsBodies ==
    {body \in Bodies :
        /\ body.projectId = 1
        /\ Len(body.tasks) = 1
        /\ body.tasks[1] \in {ObjectEntry("string", <<"a">>, "done", "high"),
                              ObjectEntry("string", <<"b">>, "in_progress", "urgent")}}

HasTask(T, id) == \E k \in 1..Len(T) : T[k].id = id

\* UPDATE tasks SET status = ?, priority = ?, title = ? WHERE id IN (...),
\* with the columns of the body that are not Undefined / "undefined".
UpdateTasks(T, ids, status, priority, title) ==
    [k \in 1..Len(T) |->
        IF T[k].id \in ids
        THEN [T[k] EXCEPT
                !.status = IF status = "undefined" THEN @ ELSE status,
                !.priority = IF priority = "undefined" THEN @ ELSE priority,
                !.title = IF title = Undefined THEN @ ELSE title]
        ELSE T[k]]

\* The status and the priority every row of T has after the update.
UpdateKeepsChecks(T) ==
    \A k \in 1..Len(T) : TaskCheckHolds(T[k].status, T[k].priority)

TaskAnswer(route, status) == [route |-> route, status |-> status]

InitOps ==
    /\ InitTasks
    /\ recordings = <<[id |-> 1, projectId |-> 1, status |-> "processing",
                       transcript |-> NULL, audio |-> TRUE]>>
    /\ configured = TRUE
    /\ tr = [q \in TranscribeRequests |-> IdleTranscribe]
    /\ tk = TaskAnswer("none", 0)
    /\ decisions = <<>>
    /\ sr = <<>>
    /\ nt = [title |-> <<>>, norm |-> <<>>, done |-> FALSE]
    /\ NoCosineState
    /\ NoEmbedState
    /\ NoDecisionState

\* router.post('/') of tasks.js, lines 41-75.
CreateTask ==
    /\ ThreadFree
    /\ Len(tasks) < MaxOpsRows
    /\ \E body \in CreateBodies, dbOk \in BOOLEAN :
        LET taskPriority == IF body.priority \in {"low", "medium", "high"}
                            THEN body.priority ELSE "medium"
        IN  IF body.projectId = 0 \/ trim(body.title) = <<>>
            THEN tk' = TaskAnswer("create", 400) /\ UNCHANGED <<tasks, nextTaskId>>
            ELSE IF body.projectId \notin Projects
            THEN tk' = TaskAnswer("create", 404) /\ UNCHANGED <<tasks, nextTaskId>>
            ELSE IF dbOk /\ ForeignKeyHolds(body.projectId)
                    /\ TaskCheckHolds("pending", taskPriority)
            THEN /\ tasks' = InsertTask(tasks, nextTaskId, body.projectId,
                                        trim(body.title), "pending", taskPriority)
                 /\ nextTaskId' = nextTaskId + 1
                 /\ tk' = TaskAnswer("create", 201)
            ELSE tk' = TaskAnswer("create", 500) /\ UNCHANGED <<tasks, nextTaskId>>
    /\ UNCHANGED <<nt, running, st, decisions, configured, sr, cs, er, links, dr,
                   recordings, tr>>

\* router.patch('/:id'), lines 78-124.
PatchTask ==
    /\ ThreadFree
    /\ \E id \in 1..(MaxOpsRows + 1), body \in PatchBodies, dbOk \in BOOLEAN :
        LET title == IF body.title = Undefined THEN Undefined ELSE trim(body.title)
            updated == UpdateTasks(tasks, {id}, body.status, body.priority, title)
        IN  IF ~HasTask(tasks, id)
            THEN tk' = TaskAnswer("patch", 404) /\ UNCHANGED tasks
            ELSE IF \/ (body.status # "undefined"
                        /\ body.status \notin {"pending", "in_progress", "done"})
                    \/ (body.priority # "undefined"
                        /\ body.priority \notin {"low", "medium", "high"})
                    \/ (body.title # Undefined /\ trim(body.title) = <<>>)
                    \/ (body.status = "undefined" /\ body.priority = "undefined"
                        /\ body.title = Undefined)
            THEN tk' = TaskAnswer("patch", 400) /\ UNCHANGED tasks
            ELSE IF dbOk /\ UpdateKeepsChecks(updated)
            THEN tasks' = updated /\ tk' = TaskAnswer("patch", 200)
            ELSE tk' = TaskAnswer("patch", 500) /\ UNCHANGED tasks
    /\ UNCHANGED <<nt, nextTaskId, running, st, decisions, configured, sr, cs, er,
                   links, dr, recordings, tr>>

\* router.patch('/bulk/update'), lines 138-177: a falsy status or priority
\* is left out of the update.
BulkUpdate ==
    /\ ThreadFree
    /\ \E body \in BulkBodies, dbOk \in BOOLEAN :
        LET status == IF body.status = "" THEN "undefined" ELSE body.status
            priority == body.priority
            updated == UpdateTasks(tasks, body.ids, status, priority, Undefined)
        IN  IF ~body.idsIsArray \/ body.ids = {}
            THEN tk' = TaskAnswer("bulk", 400) /\ UNCHANGED tasks
            ELSE IF \/ (status # "undefined"
                        /\ status \notin {"pending", "in_progress", "done"})
                    \/ (priority # "undefined"
                        /\ priority \notin {"low", "medium", "high"})
                    \/ (status = "undefined" /\ priority = "undefined")
            THEN tk' = TaskAnswer("bulk", 400) /\ UNCHANGED tasks
            ELSE IF dbOk /\ UpdateKeepsChecks(updated)
            THEN tasks' = updated /\ tk' = TaskAnswer("bulk", 200)
            ELSE tk' = TaskAnswer("bulk", 500) /\ UNCHANGED tasks
    /\ UNCHANGED <<nt, nextTaskId, running, st, decisions, configured, sr, cs, er,
                   links, dr, recordings, tr>>

\* The table stays within MaxOpsRows rows.
WithinOpsRows == Len(tasks') <= MaxOpsRows

NextOps ==
    \/ CreateTask
    \/ PatchTask
    \/ BulkUpdate
    \/ \E r \in {1} :
        \/ SaveTasksBegin(r) /\ (st'[r].pc = "done" \/ st'[r].body \in OpsBodies)
        \/ SaveTasksEntry(r) /\ WithinOpsRows
        \/ SaveTasksRespond(r)
        \/ ErrorMiddleware(r)
    \/ \E q \in {1} :
        \/ TranscribeBegin(q)
        \/ TranscribeAudioSettles(q)
        \/ ExtractSettles(q) /\ WithinOpsRows

SpecOps == InitOps /\ [][NextOps]_vars

\* C22: after any sequence of task operations (manual create, PATCH, bulk
\* update, save-tasks in either mode, transcription import) every stored
\* task has a status among pending, in_progress, done and a priority among
\* low, medium, high.
C22_StoredTasksValid ==
    \A k \in 1..Len(tasks) :
        /\ tasks[k].status \in {"pending", "in_progress", "done"}
        /\ tasks[k].priority \in {"low", "medium", "high"}

\* A PATCH with an invalid status was refused after a save-tasks entry with
\* priority "urgent" and an imported task were stored.
C22_Witness ==
    /\ tk = TaskAnswer("patch", 400)
    /\ \E k \in 1..Len(tasks) : tasks[k].title = <<"b">> /\ tasks[k].priority = "medium"
    /\ \E k \in 1..Len(tasks) : tasks[k].title = <<"u">> /\ tasks[k].priority = "medium"

----------------------------------------------------------------------------
\* C8: for every title the normalized title is lowercase, has no leading or
\* trailing whitespace, no trailing punctuation, no quote character and no
\* run of two or more whitespace characters, and the example title
\* "  Refactor   Auth   Module!!  " normalizes to "refactor auth module".
C8_NormalForm ==
    nt.done =>
        LET n == nt.norm IN
        /\ \A k \in 1..Len(n) : n[k] \notin DOMAIN UpperToLower
        /\ n # <<>> => n[1] \notin Whitespace /\ n[Len(n)] \notin Whitespace
        /\ n # <<>> => n[Len(n)] \notin Punctuation
        /\ \A k \in 1..Len(n) : n[k] \notin Quotes
        /\ \A k \in 1..(Len(n) - 1) : ~(n[k] \in Whitespace /\ n[k + 1] \in Whitespace)
        /\ nt.title = ExampleTitle => n = ExampleNormalized

\* C24: normalizeTitle is idempotent: for every title t,
\* normalizeTitle(normalizeTitle(t)) equals normalizeTitle(t).
C24_NormalizeIdempotent ==
    nt.done => normalizeTitle(nt.norm) = nt.norm

====
